---- MODULE Spec2Model ----
(***************************************************************************)
(* A model of bieglers-simple-timetracker: the in-memory time tracker      *)
(* (packages/timetracker, InMemoryTimeTracker), its listing query and the  *)
(* command handlers of the command-line front end (packages/cli).          *)
(*                                                                         *)
(* Instants (DateTime<Utc>) are whole seconds since the Unix epoch.  A     *)
(* description (String) is a sequence of one-character strings, so that    *)
(* str::trim is computed and not assumed.  Option<T> is a sequence of      *)
(* length at most one: <<>> is None and <<x>> is Some(x).                  *)
(***************************************************************************)
EXTENDS Integers, Sequences, FiniteSets, TLC

VARIABLES
    tracker,      \* the InMemoryTimeTracker: [active : Option<TimeBox>, finished : Vec<TimeBox>]
    now,          \* what Utc::now() returns
    lastOp,       \* the step taken last: the operation or command called, or "tick"
    lastResult,   \* "Ok", or the name of the Error it returned
    lastCount,    \* the number the last call returned or a failed load's error carries, else 0
    modified,     \* the StoreModified flag the last command handler returned
    saved,        \* whether the last step persisted the tracker (main, after the command)
    sinceBegin,   \* history: was the active box made by begin, and push_note calls since
    preEnd,       \* history: the tracker before end(), while no other call has followed but resume()
    snapshot,     \* the content of the file the last step loaded, or is about to load; None otherwise
    endLog,       \* history: the boxes still in finished, in the order of the end() calls that put them there
    fs,           \* the storage directory: what each path holds, None where there is no file
    savePc,       \* how far save_json_to_disk has come: idle, created, writing, written, renamed or crashed;
                  \* with two runs saving at once, the state of each run's save
    today,        \* what Local::now().date_naive() returns
    parsed        \* what parse_date_filter returned last, None before its first call

vars == <<tracker, now, lastOp, lastResult, lastCount, modified, saved, sinceBegin, preEnd,
          snapshot, endLog,
          fs, savePc, today, parsed>>

----------------------------------------------------------------------------
(* Bounds of the model *)

\* the clock advances at most this many times
MaxTicks == 2
\* begin and push_note are called only while the tracker holds fewer notes than this
MaxNotes == 3
\* width of the modelled machine word (usize)
UsizeBits == 5
\* a file that is loaded holds at most this many finished boxes, and MaxNotes notes
MaxFileBoxes == 2

SecondsPerMinute == 60

\* one advance of the clock: ten minutes
TickSeconds == 10 * SecondsPerMinute

\* the instant the first invocation runs at
T0 == 100 * TickSeconds

UsizeMax == 2^UsizeBits - 1

\* the descriptions a caller passes to begin and push_note
Descriptions == { <<"A">>, <<"B">> }

\* the descriptions a caller passes to amend; the first carries surrounding whitespace
Amendments == { <<" ", "A", " ">>, <<"B">> }

\* the values of skip and take the listing is examined for
Counts == (0 .. MaxNotes) \cup {UsizeMax}

\* the values of skip and take a caller passes
Skips == {0, 1}

Takes == {1, UsizeMax}

Orders == {"Ascending", "Descending"}

----------------------------------------------------------------------------
(* entities.rs *)

None == <<>>

\* the characters str::trim removes
Whitespace == {" ", "\t", "\n"}

Some(x) == <<x>>

TimeBoxNote(time, description) == [time |-> time, description |-> description]

TimeBox(notes) == [notes |-> notes]

\* DateTime<Utc>::default(): the Unix epoch
DateTimeDefault == 0

Ok(v) == [ok |-> TRUE, val |-> v, err |-> "Ok"]

Err(e) == [ok |-> FALSE, val |-> 0, err |-> e]

unwrap_or_default(r) == IF r.ok THEN r.val ELSE DateTimeDefault

\* a start time made up for a box without notes
time_start_default(tb) ==
    IF tb.notes # <<>> THEN Ok(tb.notes[1].time) ELSE Ok(DateTimeDefault)

time_start(tb) ==
    IF tb.notes # <<>> THEN Ok(tb.notes[1].time) ELSE Err("TimeBoxIsMissingNote")

time_stop(tb) ==
    IF tb.notes # <<>> THEN Ok(tb.notes[Len(tb.notes)].time) ELSE Err("TimeBoxIsMissingNote")

\* the difference taken the wrong way round
timedelta_total_swapped(tb) ==
    IF ~time_stop(tb).ok THEN time_stop(tb)
    ELSE IF ~time_start(tb).ok THEN time_start(tb)
    ELSE Ok(time_start(tb).val - time_stop(tb).val)

\* a duration that is never negative
timedelta_total_clamped(tb) ==
    IF ~time_stop(tb).ok THEN time_stop(tb)
    ELSE IF ~time_start(tb).ok THEN time_start(tb)
    ELSE Ok(IF time_stop(tb).val < time_start(tb).val THEN 0
            ELSE time_stop(tb).val - time_start(tb).val)

\* signed_duration_since, in whole seconds (num_seconds)
timedelta_total(tb) ==
    IF ~time_stop(tb).ok THEN time_stop(tb)
    ELSE IF ~time_start(tb).ok THEN time_start(tb)
    ELSE Ok(time_stop(tb).val - time_start(tb).val)

\* num_seconds() as f64 / 60.0, as the pair <<whole minutes, remaining seconds>>
duration_in_minutes(tb) ==
    IF ~timedelta_total(tb).ok THEN timedelta_total(tb)
    ELSE Ok(<<timedelta_total(tb).val \div SecondsPerMinute,
              timedelta_total(tb).val % SecondsPerMinute>>)

\* Utc::now().signed_duration_since(time_start), in whole seconds
timedelta_active(tb, utc_now) ==
    IF ~time_start(tb).ok THEN time_start(tb) ELSE Ok(utc_now - time_start(tb).val)

----------------------------------------------------------------------------
(* slice::sort_by: a stable sort; cmp is Ordering as -1, 0, 1 *)

cmp(a, b) == IF a < b THEN -1 ELSE IF a = b THEN 0 ELSE 1

\* both orders comparing the same way round
compare_time_start_same(a, b, order) ==
    cmp(unwrap_or_default(time_start(a)), unwrap_or_default(time_start(b)))

\* the comparators of finished(): by time_start, reversed for Descending
compare_time_start(a, b, order) ==
    IF order = "Ascending"
    THEN cmp(unwrap_or_default(time_start(a)), unwrap_or_default(time_start(b)))
    ELSE cmp(unwrap_or_default(time_start(b)), unwrap_or_default(time_start(a)))

RECURSIVE insert_sorted(_, _, _)
\* x goes before the first element that compares Greater than x (stable)
insert_sorted(sorted, x, order) ==
    IF sorted = <<>> THEN <<x>>
    ELSE IF compare_time_start(Head(sorted), x, order) > 0 THEN <<x>> \o sorted
    ELSE <<Head(sorted)>> \o insert_sorted(Tail(sorted), x, order)

RECURSIVE sort_by_time_start(_, _)
sort_by_time_start(items, order) ==
    IF items = <<>> THEN <<>>
    ELSE insert_sorted(sort_by_time_start(SubSeq(items, 1, Len(items) - 1), order),
                       items[Len(items)], order)

----------------------------------------------------------------------------
(* tracking.rs: ListOptions *)

ListOptions(skip, take, order) == [skip |-> skip, take |-> take, order |-> order]

ListOptionsNew == ListOptions(0, 25, "Descending")

\* page * page_size in the machine word (wrapping, as a release build computes it)
page(options, page_no, page_size) ==
    [options EXCEPT !.skip = (page_no * page_size) % (UsizeMax + 1), !.take = page_size]

Min(a, b) == IF a < b THEN a ELSE b

\* Iterator::skip(n).take(m)
skip_take(s, skip, take) ==
    IF skip >= Len(s) THEN <<>>
    ELSE SubSeq(s, skip + 1, Min(Len(s), skip + take))

----------------------------------------------------------------------------
(* in_memory_tracker.rs: impl TimeTrackingStore for InMemoryTimeTracker *)

Tracker(a, f) == [active |-> a, finished |-> f]

\* the outcome of a &mut self method: the tracker afterwards and the Result
Outcome(self, result) == [self |-> self, result |-> result]

active(self) == Ok(self.active)

\* total taken from the page instead of the collection
finished_total_of_page(self, options) ==
    LET items == skip_take(self.finished, options.skip, options.take)
    IN  Ok([total |-> Len(items),
            items |-> sort_by_time_start(items, options.order)])

finished(self, options) ==
    LET items == skip_take(self.finished, options.skip, options.take)
    IN  Ok([total |-> Len(self.finished),
            items |-> sort_by_time_start(items, options.order)])

\* begin without the check for an active box
begin_overwrites(self, description, utc_now) ==
    LET task == TimeBox(<<TimeBoxNote(utc_now, description)>>)
    IN  Outcome(Tracker(Some(task), self.finished), Ok(task))

begin(self, description, utc_now) ==
    IF self.active # None
    THEN Outcome(self, Err("ActiveTimeBoxExistsAlready"))
    ELSE LET task == TimeBox(<<TimeBoxNote(utc_now, description)>>)
         IN  Outcome(Tracker(Some(task), self.finished), Ok(task))

\* push_note putting the new note first
push_note_prepends(self, description, utc_now) ==
    IF self.active = None
    THEN Outcome(self, Err("NoActiveTimeBox"))
    ELSE LET t == TimeBox(<<TimeBoxNote(utc_now, description)>> \o self.active[1].notes)
         IN  Outcome(Tracker(Some(t), self.finished), Ok(t))

\* push_note putting the new note before the last one
push_note_before_last(self, description, utc_now) ==
    IF self.active = None
    THEN Outcome(self, Err("NoActiveTimeBox"))
    ELSE LET notes == self.active[1].notes
             t == TimeBox(SubSeq(notes, 1, Len(notes) - 1)
                          \o <<TimeBoxNote(utc_now, description), notes[Len(notes)]>>)
         IN  Outcome(Tracker(Some(t), self.finished), Ok(t))

push_note(self, description, utc_now) ==
    IF self.active = None
    THEN Outcome(self, Err("NoActiveTimeBox"))
    ELSE LET t == TimeBox(Append(self.active[1].notes, TimeBoxNote(utc_now, description)))
         IN  Outcome(Tracker(Some(t), self.finished), Ok(t))

\* end putting the box in front of the finished ones
end_prepends(self) ==
    IF self.active = None
    THEN Outcome(self, Err("NoActiveTimeBox"))
    ELSE LET tb == self.active[1]
         IN  Outcome(Tracker(None, <<tb>> \o self.finished), Ok(tb))

\* end copying the active box into finished and leaving it active
end_keeps_active(self) ==
    IF self.active = None
    THEN Outcome(self, Err("NoActiveTimeBox"))
    ELSE Outcome(Tracker(self.active, Append(self.finished, self.active[1])),
                 Ok(self.active[1]))

end(self) ==
    IF self.active = None
    THEN Outcome(self, Err("NoActiveTimeBox"))
    ELSE LET tb == self.active[1]
         IN  Outcome(Tracker(None, Append(self.finished, tb)), Ok(tb))

\* resume taking the first finished box instead of the last
resume_first(self) ==
    IF self.active # None
    THEN Outcome(self, Err("ActiveTimeBoxExistsAlready"))
    ELSE IF self.finished = <<>>
    THEN Outcome(self, Err("NoTimeBox"))
    ELSE Outcome(Tracker(Some(Head(self.finished)), Tail(self.finished)),
                 Ok(Head(self.finished)))

\* resume without the check for an active box
resume_overwrites(self) ==
    IF self.finished = <<>>
    THEN Outcome(self, Err("NoTimeBox"))
    ELSE LET tb == self.finished[Len(self.finished)]
         IN  Outcome(Tracker(Some(tb), SubSeq(self.finished, 1, Len(self.finished) - 1)),
                     Ok(tb))

\* resume looking at finished before it looks at the active box
resume_pops_first(self) ==
    IF self.finished = <<>>
    THEN Outcome(self, Err("NoTimeBox"))
    ELSE IF self.active # None
    THEN Outcome(self, Err("ActiveTimeBoxExistsAlready"))
    ELSE LET tb == self.finished[Len(self.finished)]
         IN  Outcome(Tracker(Some(tb), SubSeq(self.finished, 1, Len(self.finished) - 1)),
                     Ok(tb))

resume(self) ==
    IF self.active # None
    THEN Outcome(self, Err("ActiveTimeBoxExistsAlready"))
    ELSE IF self.finished = <<>>
    THEN Outcome(self, Err("NoTimeBox"))
    ELSE LET tb == self.finished[Len(self.finished)]
         IN  Outcome(Tracker(Some(tb), SubSeq(self.finished, 1, Len(self.finished) - 1)),
                     Ok(tb))

RECURSIVE trim_start(_)
trim_start(s) ==
    IF s # <<>> /\ Head(s) \in Whitespace THEN trim_start(Tail(s)) ELSE s

RECURSIVE trim_end(_)
trim_end(s) ==
    IF s # <<>> /\ s[Len(s)] \in Whitespace THEN trim_end(SubSeq(s, 1, Len(s) - 1)) ELSE s

\* str::trim
trim(s) == trim_end(trim_start(s))

\* amend storing the description as it was passed
amend_untrimmed(self, description) ==
    IF self.active = None
    THEN Outcome(self, Err("NoActiveTimeBox"))
    ELSE IF self.active[1].notes = <<>>
    THEN Outcome(self, Err("ActiveTimeBoxIsMissingNote"))
    ELSE LET notes == self.active[1].notes
             tb == TimeBox([notes EXCEPT ![Len(notes)].description = description])
         IN  Outcome(Tracker(Some(tb), self.finished), Ok(tb))

amend(self, description) ==
    IF self.active = None
    THEN Outcome(self, Err("NoActiveTimeBox"))
    ELSE IF self.active[1].notes = <<>>
    THEN Outcome(self, Err("ActiveTimeBoxIsMissingNote"))
    ELSE LET notes == self.active[1].notes
             tb == TimeBox([notes EXCEPT ![Len(notes)].description = trim(description)])
         IN  Outcome(Tracker(Some(tb), self.finished), Ok(tb))

\* cancel keeping the box as a finished one
cancel_keeps(self) ==
    IF self.active = None
    THEN Outcome(self, Err("NoActiveTimeBox"))
    ELSE Outcome(Tracker(None, Append(self.finished, self.active[1])), Ok(self.active[1]))

cancel(self) ==
    IF self.active = None
    THEN Outcome(self, Err("NoActiveTimeBox"))
    ELSE Outcome(Tracker(None, self.finished), Ok(self.active[1]))

\* clear refusing while a box is active
clear_guarded(self) ==
    IF self.active # None
    THEN Outcome(self, Ok(0))
    ELSE Outcome(Tracker(self.active, <<>>), Ok(Len(self.finished)))

clear(self) ==
    Outcome(Tracker(self.active, <<>>), Ok(Len(self.finished)))

----------------------------------------------------------------------------
(* in_memory_tracker.rs: validation, loading and storing.  The JSON file is  *)
(* modelled by the value serde reads from it and writes to it: a tracker.   *)

\* an error that carries the index of a finished box
ErrIndex(e, index) == [ok |-> FALSE, val |-> index, err |-> e]

RECURSIVE check_sorted(_, _)
\* the loop over the notes of one box: the first note earlier than the one before it
\* (None if there is none), and previous_time after the loop
check_sorted(notes, previous_time) ==
    IF notes = <<>> THEN [unsorted |-> None, previous_time |-> previous_time]
    ELSE IF previous_time # None /\ previous_time[1] > Head(notes).time
    THEN [unsorted |-> Some(Head(notes)), previous_time |-> previous_time]
    ELSE check_sorted(Tail(notes), Some(Head(notes).time))

RECURSIVE assert_valid_finished_per_box(_, _, _)
\* the loop over the finished boxes with previous_time starting anew in every box
assert_valid_finished_per_box(boxes, idx_tb, previous_time) ==
    IF idx_tb > Len(boxes) THEN Ok(0)
    ELSE IF boxes[idx_tb].notes = <<>>
    THEN ErrIndex("TimeBoxIsMissingNote", idx_tb - 1)
    ELSE LET c == check_sorted(boxes[idx_tb].notes, None)
         IN  IF c.unsorted # None
             THEN Err("TimeBoxNoteIsNotLinearlySorted")
             ELSE assert_valid_finished_per_box(boxes, idx_tb + 1, c.previous_time)

RECURSIVE assert_valid_finished(_, _, _)
\* the loop over the finished boxes, from the idx_tb-th on; previous_time runs across boxes
assert_valid_finished(boxes, idx_tb, previous_time) ==
    IF idx_tb > Len(boxes) THEN Ok(0)
    ELSE IF boxes[idx_tb].notes = <<>>
    THEN ErrIndex("TimeBoxIsMissingNote", idx_tb - 1)
    ELSE LET c == check_sorted(boxes[idx_tb].notes, previous_time)
         IN  IF c.unsorted # None
             THEN Err("TimeBoxNoteIsNotLinearlySorted")
             ELSE assert_valid_finished(boxes, idx_tb + 1, c.previous_time)

\* the first error met, in the order the code looks for them
assert_valid(self) ==
    IF self.active # None /\ self.active[1].notes = <<>>
    THEN Err("ActiveTimeBoxIsMissingNote")
    ELSE IF self.active # None /\ check_sorted(self.active[1].notes, None).unsorted # None
    THEN Err("TimeBoxNoteIsNotLinearlySorted")
    ELSE assert_valid_finished(self.finished, 1, None)

RECURSIVE insert_by_time(_, _)
\* note goes before the first note that is later than it (stable)
insert_by_time(sorted, note) ==
    IF sorted = <<>> THEN <<note>>
    ELSE IF cmp(Head(sorted).time, note.time) > 0 THEN <<note>> \o sorted
    ELSE <<Head(sorted)>> \o insert_by_time(Tail(sorted), note)

RECURSIVE sort_by_time(_)
\* notes.sort_by(|a, b| a.time.cmp(&b.time))
sort_by_time(notes) ==
    IF notes = <<>> THEN <<>>
    ELSE insert_by_time(sort_by_time(SubSeq(notes, 1, Len(notes) - 1)), notes[Len(notes)])

\* the recovery sorting the notes of the active box only
JsonFileLoadingStrategy_init_active_only(content) ==
    LET valid == assert_valid(content)
    IN  IF valid.ok THEN Ok(content)
        ELSE IF valid.err = "TimeBoxNoteIsNotLinearlySorted"
        THEN Ok(Tracker(
                 [i \in 1 .. Len(content.active) |->
                     TimeBox(sort_by_time(content.active[i].notes))],
                 sort_by_time_start(content.finished, "Ascending")))
        ELSE valid

\* content is the tracker deserialized from the file
JsonFileLoadingStrategy_init(content) ==
    LET valid == assert_valid(content)
    IN  IF valid.ok THEN Ok(content)
        ELSE IF valid.err = "TimeBoxNoteIsNotLinearlySorted"
        THEN Ok(Tracker(
                 [i \in 1 .. Len(content.active) |->
                     TimeBox(sort_by_time(content.active[i].notes))],
                 sort_by_time_start(
                     [i \in 1 .. Len(content.finished) |->
                         TimeBox(sort_by_time(content.finished[i].notes))],
                     "Ascending")))
        ELSE valid

\* init listing the finished boxes in the default order of ListOptions
init_default_order(content) ==
    LET store == JsonFileLoadingStrategy_init(content)
    IN  IF ~store.ok THEN store
        ELSE Ok(Tracker(active(store.val).val,
                        finished(store.val,
                                 ListOptions(0, UsizeMax, "Descending")).val.items))

\* InMemoryTimeTracker::init with the JsonFileLoadingStrategy
init(content) ==
    LET store == JsonFileLoadingStrategy_init(content)
    IN  IF ~store.ok THEN store
        ELSE Ok(Tracker(active(store.val).val,
                        finished(store.val,
                                 ListOptions(0, UsizeMax, "Ascending")).val.items))

\* write listing the finished boxes with the options of ListOptions::new()
write_default_page(store) ==
    Tracker(active(store).val, finished(store, ListOptionsNew).val.items)

\* JsonStorageStrategy::write: the value serialized into the file
write(store) ==
    Tracker(active(store).val,
            finished(store, ListOptions(0, UsizeMax, "Ascending")).val.items)

----------------------------------------------------------------------------
(* handle_commands.rs *)

\* a query handler also yields what it prints
Printed(self, result, printed) == [self |-> self, result |-> result, printed |-> printed]

\* ExportStrategy
ExportStrategies == {"Debug", "Csv", "Json"}

\* generate_table_active fails where duration_in_hours does
generate_table_active(tb) ==
    IF timedelta_total(tb).ok THEN Ok(<<tb>>) ELSE Err(timedelta_total(tb).err)

\* generate_csv_export fails on the first box whose duration_in_hours fails
generate_csv_export(boxes) ==
    IF \A i \in 1 .. Len(boxes) : timedelta_total(boxes[i]).ok
    THEN Ok(boxes) ELSE Err("TimeBoxIsMissingNote")

handle_command_status(self) ==
    IF active(self).val = None
    THEN Printed(self, Err("NoActiveTimeBox"), <<>>)
    ELSE LET table == generate_table_active(active(self).val[1])
         IN  IF table.ok THEN Printed(self, Ok(FALSE), table.val)
             ELSE Printed(self, Err(table.err), <<>>)

handle_command_export(self, strategy) ==
    LET items == finished(self, ListOptionsNew).val.items
        content == IF strategy = "Csv" THEN generate_csv_export(items) ELSE Ok(items)
    IN  IF ~content.ok THEN Printed(self, Err(content.err), <<>>)
        ELSE IF active(self).val # None /\ ~generate_table_active(active(self).val[1]).ok
        THEN Printed(self, Err(generate_table_active(active(self).val[1]).err), content.val)
        ELSE Printed(self, Ok(FALSE), content.val)

handle_command_list(self, options) ==
    LET listed == finished(self, options).val
    IN  IF listed.items = <<>> THEN Printed(self, Ok(FALSE), <<>>)
        ELSE IF active(self).val # None /\ ~generate_table_active(active(self).val[1]).ok
        THEN Printed(self, Err(generate_table_active(active(self).val[1]).err), listed.items)
        ELSE Printed(self, Ok(FALSE), listed.items)

handle_command_start(self, description, utc_now) ==
    LET out == begin(self, description, utc_now)
    IN  IF out.result.ok THEN Outcome(out.self, Ok(TRUE))
        ELSE Outcome(out.self, Err(out.result.err))

\* the note command dropping the error of push_note
handle_command_note_ignoring_error(self, description, finish, utc_now) ==
    LET pushed == push_note(self, description, utc_now)
    IN  IF ~pushed.result.ok THEN Outcome(pushed.self, Ok(TRUE))
        ELSE IF ~finish THEN Outcome(pushed.self, Ok(TRUE))
        ELSE LET ended == end(pushed.self)
             IN  IF ended.result.ok THEN Outcome(ended.self, Ok(TRUE))
                 ELSE Outcome(ended.self, Err(ended.result.err))

\* the note command leaving the box active whatever the end flag says
handle_command_note_never_ends(self, description, finish, utc_now) ==
    LET pushed == push_note(self, description, utc_now)
    IN  IF ~pushed.result.ok THEN Outcome(pushed.self, Err(pushed.result.err))
        ELSE Outcome(pushed.self, Ok(TRUE))

handle_command_note(self, description, finish, utc_now) ==
    LET pushed == push_note(self, description, utc_now)
    IN  IF ~pushed.result.ok THEN Outcome(pushed.self, Err(pushed.result.err))
        ELSE IF ~finish THEN Outcome(pushed.self, Ok(TRUE))
        ELSE LET ended == end(pushed.self)
             IN  IF ended.result.ok THEN Outcome(ended.self, Ok(TRUE))
                 ELSE Outcome(ended.self, Err(ended.result.err))

handle_command_amend(self, description) ==
    LET out == amend(self, description)
    IN  IF out.result.ok THEN Outcome(out.self, Ok(TRUE))
        ELSE Outcome(out.self, Err(out.result.err))

handle_command_resume(self) ==
    LET out == resume(self)
    IN  IF out.result.ok THEN Outcome(out.self, Ok(TRUE))
        ELSE Outcome(out.self, Err(out.result.err))

handle_command_end(self) ==
    LET out == end(self)
    IN  IF out.result.ok THEN Outcome(out.self, Ok(TRUE))
        ELSE Outcome(out.self, Err(out.result.err))

handle_command_cancel(self) ==
    LET out == cancel(self)
    IN  IF out.result.ok THEN Outcome(out.self, Ok(TRUE))
        ELSE Outcome(out.self, Err(out.result.err))

\* the clear command without its check for an active box
handle_command_clear_unguarded(self) ==
    LET out == clear(self)
    IN  Outcome(out.self, Ok(out.result.val > 0))

\* the clear command reporting a change whatever clear() returned
handle_command_clear_always_modified(self) ==
    IF active(self).val = None
    THEN LET out == clear(self)
         IN  Outcome(out.self, Ok(TRUE))
    ELSE Outcome(self, Ok(FALSE))

\* the outcome of a command handler: the tracker afterwards and Result<StoreModified>
handle_command_clear(self) ==
    IF active(self).val = None
    THEN LET out == clear(self)
         IN  Outcome(out.self, Ok(out.result.val > 0))
    ELSE Outcome(self, Ok(FALSE))

----------------------------------------------------------------------------
(* main: the command's handler runs, then the tracker is saved if it reported a change *)

\* main saving after every command that returned Ok
main_saves_unmodified(result) == result.ok

main_saves(result) == result.ok /\ result.val

----------------------------------------------------------------------------
(* The storage directory: helpers.rs, handle_commands.rs *)

\* the pieces in which the serializer hands a file's content to the disk
WriteChunks == 2

TasksFile == <<"tasks.json">>
GitIgnore == <<".gitignore">>

\* the values Utc::now() takes
Times == {T0 + k * TickSeconds : k \in 0 .. MaxTicks}

\* save_json_to_disk writing straight into the tasks file
path_swap_in_place(path, time) == path

\* the swap file next to the tasks file, named after the time of the save
path_swap(path, time) == <<".__", time, "_swap_tasks.json">>

Paths == {TasksFile, GitIgnore} \cup {path_swap(TasksFile, t) : t \in Times}

NoFiles == [p \in Paths |-> None]

\* a file holding all that the serializer writes for data: its pieces in order
File(data) == [k \in 1 .. WriteChunks |-> [of |-> data, piece |-> k]]

\* the file holds all the pieces of some value
Complete(file) == Len(file) = WriteChunks

\* File::create: a new empty file, or the existing one truncated
create(files, path) == [files EXCEPT ![path] = Some(<<>>)]

\* the next piece of data reaches the file
write_chunk(files, path, data) ==
    [files EXCEPT ![path] = Some(Append(files[path][1],
                                        File(data)[Len(files[path][1]) + 1]))]

\* a write of the next piece of data through a handle that stands after offset pieces:
\* the piece replaces what the file holds there, and a file shorter than the offset
\* is filled up with zero pieces
write_at(files, path, data, offset) ==
    LET old  == files[path][1]
        zero == [of |-> Tracker(None, <<>>), piece |-> 0]
        new  == [k \in 1 .. (IF Len(old) > offset THEN Len(old) ELSE offset + 1) |->
                    IF k = offset + 1 THEN File(data)[k]
                    ELSE IF k <= Len(old) THEN old[k] ELSE zero]
    IN  [files EXCEPT ![path] = Some(new)]

\* std::fs::rename: to is replaced by from in one step
rename(files, from, to) ==
    IF from = to THEN files ELSE [files EXCEPT ![to] = files[from], ![from] = None]

\* the outcome of a handler that works on the storage directory
Stored(files, result) == [fs |-> files, result |-> result]

\* the init command creating the tasks file whether or not there is one
handle_command_init_overwriting(files, storage_file) ==
    LET made  == [files EXCEPT ![storage_file] = Some(File(write(Tracker(None, <<>>))))]
        files2 == IF made[GitIgnore] = None
                  THEN [made EXCEPT ![GitIgnore] = Some(File(<<"*">>))]
                  ELSE made
    IN  Stored(files2, Ok(<<>>))

handle_command_init(files, storage_file) ==
    IF files[storage_file] # None
    THEN Stored(files, Err("AlreadyExists"))
    ELSE LET made  == [files EXCEPT ![storage_file] = Some(File(write(Tracker(None, <<>>))))]
             files2 == IF made[GitIgnore] = None
                       THEN [made EXCEPT ![GitIgnore] = Some(File(<<"*">>))]
                       ELSE made
         IN  Stored(files2, Ok(<<>>))

----------------------------------------------------------------------------
(* Calendar dates: args.rs. A chrono::NaiveDate is modelled by the number of days *)
(* from 1970-01-01 to it, so that dates compare and add as the numbers do.       *)

\* the years today falls in
MaxYears == 2

FirstYear == 2023

IsLeapYear(y) == y % 4 = 0 /\ (y % 100 # 0 \/ y % 400 = 0)

DaysInMonth(y, m) ==
    IF m = 2 THEN (IF IsLeapYear(y) THEN 29 ELSE 28)
    ELSE IF m \in {4, 6, 9, 11} THEN 30 ELSE 31

\* the days from 1970-01-01 to the first day of the year y: 365 a year and one more
\* for every leap year in between
DaysBeforeYear(y) ==
    LET leaps(x) == (x - 1) \div 4 - (x - 1) \div 100 + (x - 1) \div 400
    IN  365 * (y - 1970) + leaps(y) - leaps(1970)

\* the days of the year y before its month m
DaysBeforeMonth(y, m) ==
    <<0, 31, 59, 90, 120, 151, 181, 212, 243, 273, 304, 334>>[m]
        + (IF m > 2 /\ IsLeapYear(y) THEN 1 ELSE 0)

\* NaiveDate::from_ymd_opt: None unless the day exists
from_ymd_opt(y, m, d) ==
    IF m \in 1 .. 12 /\ d \in 1 .. DaysInMonth(y, m)
    THEN Some(DaysBeforeYear(y) + DaysBeforeMonth(y, m) + d - 1)
    ELSE None

\* Datelike::year, among the years of today and one to either side
year(date) ==
    CHOOSE y \in FirstYear - 1 .. FirstYear + MaxYears :
        DaysBeforeYear(y) <= date /\ date < DaysBeforeYear(y + 1)

\* Datelike::month
month(date) ==
    LET y == year(date)
        ordinal0 == date - DaysBeforeYear(y)
    IN  CHOOSE m \in 1 .. 12 :
            DaysBeforeMonth(y, m) <= ordinal0 /\ ordinal0 < DaysBeforeMonth(y, m) + DaysInMonth(y, m)

\* the days of the week counted from Sunday
num_days_from_sunday(date) == (date + 4) % 7

\* weekday().num_days_from_monday(): 1970-01-01 was a Thursday
num_days_from_monday(date) == (date + 3) % 7

ListFilterDate(date) == [tag |-> "Date", date |-> date]

ListFilterRange(from, to) == [tag |-> "Range", from |-> from, to |-> to]

\* the argument of --filter: one of the names, or date texts joined by "..", each
\* text given by the numbers <<year, month, day>> its digits spell
Named(name) == [name |-> name, parts |-> <<>>]

Text(parts) == [name |-> "", parts |-> parts]

\* NaiveDate::parse_from_str(text, "%Y-%m-%d")
parse_from_str(text) == from_ymd_opt(text[1], text[2], text[3])

\* "this-month" ending on the first day of the next month
this_month_to_next_first(local_today) ==
    IF month(local_today) = 12
    THEN from_ymd_opt(year(local_today), 12, 31)
    ELSE from_ymd_opt(year(local_today), month(local_today) + 1, 1)

\* the last day of "this-month"
this_month_to(local_today) ==
    IF month(local_today) = 12
    THEN from_ymd_opt(year(local_today), 12, 31)
    ELSE LET d == from_ymd_opt(year(local_today), month(local_today) + 1, 1)
         IN  IF d = None THEN None ELSE Some(d[1] - 1)

parse_date_filter(s, local_today) ==
    CASE s.name = "today" -> Ok(ListFilterDate(local_today))
      [] s.name = "yesterday" -> Ok(ListFilterDate(local_today - 1))
      [] s.name = "this-week" ->
            LET from == local_today - num_days_from_monday(local_today)
            IN  Ok(ListFilterRange(from, from + 6))
      [] s.name = "last-week" ->
            LET this_week_start == local_today - num_days_from_monday(local_today)
                from == this_week_start - 7
            IN  Ok(ListFilterRange(from, from + 6))
      [] s.name = "this-month" ->
            LET from == from_ymd_opt(year(local_today), month(local_today), 1)
                to   == this_month_to(local_today)
            IN  IF from = None \/ to = None THEN Err("Invalid date")
                ELSE Ok(ListFilterRange(from[1], to[1]))
      [] s.name = "last-month" ->
            LET from == IF month(local_today) = 1
                        THEN from_ymd_opt(year(local_today) - 1, 12, 1)
                        ELSE from_ymd_opt(year(local_today), month(local_today) - 1, 1)
                to   == from_ymd_opt(year(local_today), month(local_today), 1)
            IN  IF from = None \/ to = None THEN Err("Invalid date")
                ELSE Ok(ListFilterRange(from[1], to[1] - 1))
      [] OTHER ->
            IF Len(s.parts) >= 2
            THEN IF Len(s.parts) # 2 THEN Err("Range must be in format")
                 ELSE LET from == parse_from_str(s.parts[1])
                          to   == parse_from_str(s.parts[2])
                      IN  IF from = None THEN Err("Invalid start date")
                          ELSE IF to = None THEN Err("Invalid end date")
                          ELSE IF from[1] > to[1] THEN Err("Start date must be before or equal to end date")
                          ELSE Ok(ListFilterRange(from[1], to[1]))
            ELSE LET date == parse_from_str(s.parts[1])
                 IN  IF date = None THEN Err("Invalid date") ELSE Ok(ListFilterDate(date[1]))

----------------------------------------------------------------------------
(* The filter of a listing. ListFilter is imported by args.rs from the library, whose *)
(* sources hold neither its definition nor the code applying it: both are taken from  *)
(* the specification of the query engine.                                            *)

SecondsPerDay == 24 * 60 * SecondsPerMinute

\* the offset of the local timezone from UTC: one hour to the east
UtcOffset == 60 * SecondsPerMinute

\* the calendar date of an instant in the local timezone
local_date(time) == (time + UtcOffset) \div SecondsPerDay

\* a range filter leaving out its last day
matches_before_to(filter, tb) ==
    LET date == local_date(unwrap_or_default(time_start(tb)))
    IN  IF filter.tag = "Date" THEN date = filter.date
        ELSE filter.from <= date /\ date < filter.to

\* whether the filter keeps the box
matches(filter, tb) ==
    LET date == local_date(unwrap_or_default(time_start(tb)))
    IN  IF filter.tag = "Date" THEN date = filter.date
        ELSE filter.from <= date /\ date <= filter.to

RECURSIVE retain(_, _)
\* the boxes the filter keeps, in their order
retain(boxes, filter) ==
    IF boxes = <<>> THEN <<>>
    ELSE (IF matches(filter, Head(boxes)) THEN <<Head(boxes)>> ELSE <<>>)
             \o retain(Tail(boxes), filter)

\* finished(options) with options.filter: the filter is applied first, total counts
\* every finished box
finished_filtered(self, options, filter) ==
    LET kept == IF filter = None THEN self.finished ELSE retain(self.finished, filter[1])
        out  == finished(Tracker(self.active, kept), options)
    IN  Ok([total |-> Len(self.finished), items |-> out.val.items])

----------------------------------------------------------------------------
(* The state machine *)

RECURSIVE CountNotes(_)
CountNotes(boxes) ==
    IF boxes = <<>> THEN 0 ELSE Len(Head(boxes).notes) + CountNotes(Tail(boxes))

\* the notes the tracker holds, in the active box and the finished ones
TotalNotes == CountNotes(tracker.active \o tracker.finished)

NoHistory == [fresh |-> FALSE, pushes |-> 0]

Init ==
    /\ tracker = Tracker(None, <<>>)
    /\ now = T0
    /\ lastOp = "init"
    /\ lastResult = "Ok"
    /\ lastCount = 0
    /\ modified = FALSE
    /\ saved = FALSE
    /\ sinceBegin = NoHistory
    /\ preEnd = None
    /\ snapshot = None
    /\ endLog = <<>>
    /\ fs = NoFiles
    /\ savePc = "idle"
    /\ today = local_date(T0)
    /\ parsed = None

\* the history of the active box is kept while there is one
KeepHistory == sinceBegin' = IF tracker.active = None THEN NoHistory ELSE sinceBegin

\* the log without its last entry equal to tb
Unlog(log, tb) ==
    LET at == {i \in 1 .. Len(log) : log[i] = tb}
    IN  IF at = {} THEN log
        ELSE LET k == CHOOSE i \in at : \A j \in at : j <= i
             IN  SubSeq(log, 1, k - 1) \o SubSeq(log, k + 1, Len(log))

\* time passes between two calls
Tick ==
    /\ now < T0 + MaxTicks * TickSeconds
    /\ now' = now + TickSeconds
    /\ lastOp' = "tick"
    /\ lastResult' = "Ok"
    /\ lastCount' = 0
    /\ modified' = FALSE
    /\ saved' = FALSE
    /\ KeepHistory
    /\ snapshot' = None
    /\ UNCHANGED <<fs, savePc, today, parsed>>
    /\ UNCHANGED <<tracker, preEnd, endLog>>

\* a call of a TimeTrackingStore method from outside a command handler
Called(op, out) ==
    /\ tracker' = out.self
    /\ lastOp' = op
    /\ lastResult' = out.result.err
    /\ lastCount' = IF op = "clear" /\ out.result.ok THEN out.result.val ELSE 0
    /\ modified' = FALSE
    /\ saved' = FALSE
    /\ snapshot' = None
    /\ UNCHANGED <<fs, savePc, today, parsed>>
    /\ UNCHANGED now

Begin(description) ==
    LET out == begin(tracker, description, now)
    IN  /\ tracker.active = None => TotalNotes < MaxNotes
        /\ Called("begin", out)
        /\ sinceBegin' = IF out.result.ok THEN [fresh |-> TRUE, pushes |-> 0] ELSE sinceBegin
        /\ preEnd' = None
        /\ UNCHANGED endLog

PushNote(description) ==
    LET out == push_note(tracker, description, now)
    IN  /\ tracker.active # None => TotalNotes < MaxNotes
        /\ Called("push_note", out)
        /\ sinceBegin' = IF out.result.ok
                         THEN [sinceBegin EXCEPT !.pushes = @ + 1] ELSE NoHistory
        /\ preEnd' = None
        /\ UNCHANGED endLog

Amend(description) ==
    LET out == amend(tracker, description)
    IN  /\ Called("amend", out)
        /\ KeepHistory
        /\ preEnd' = None
        /\ UNCHANGED endLog

End ==
    LET out == end(tracker)
    IN  /\ Called("end", out)
        /\ sinceBegin' = IF out.result.ok THEN sinceBegin ELSE NoHistory
        /\ preEnd' = IF out.result.ok THEN Some(tracker) ELSE None
        /\ endLog' = IF out.result.ok THEN Append(endLog, out.result.val) ELSE endLog

Resume ==
    LET out == resume(tracker)
    IN  /\ Called("resume", out)
        /\ sinceBegin' = IF out.result.ok THEN NoHistory ELSE sinceBegin
        /\ preEnd' = IF out.result.ok THEN preEnd ELSE None
        /\ endLog' = IF out.result.ok THEN Unlog(endLog, out.result.val) ELSE endLog

Cancel ==
    LET out == cancel(tracker)
    IN  /\ Called("cancel", out)
        /\ sinceBegin' = NoHistory
        /\ preEnd' = None
        /\ UNCHANGED endLog

Clear ==
    LET out == clear(tracker)
    IN  /\ Called("clear", out)
        /\ KeepHistory
        /\ preEnd' = None
        /\ endLog' = <<>>

\* the listing query: it borrows the tracker and returns the page
Finished(skip, take, order) ==
    \E out \in {finished(tracker, ListOptions(skip, take, order))} :
        /\ Called("finished", Outcome(tracker, out))
        /\ KeepHistory
        /\ preEnd' = None
        /\ UNCHANGED endLog

\* one run of the program with a command: main runs the handler and saves the tracker
\* when the handler reports a change; an error ends the run before the save
Command(op, out) ==
    /\ tracker' = out.self
    /\ lastOp' = op
    /\ lastResult' = out.result.err
    /\ lastCount' = 0
    /\ modified' = (out.result.ok /\ out.result.val)
    /\ saved' = main_saves(out.result)
    /\ snapshot' = None
    /\ UNCHANGED <<fs, savePc, today, parsed>>
    /\ UNCHANGED now

CmdStart(description) ==
    LET out == handle_command_start(tracker, description, now)
    IN  /\ tracker.active = None => TotalNotes < MaxNotes
        /\ Command("cmd_start", out)
        /\ sinceBegin' = IF out.result.ok THEN [fresh |-> TRUE, pushes |-> 0] ELSE sinceBegin
        /\ preEnd' = None
        /\ UNCHANGED endLog

CmdNote(description, finish) ==
    LET out == handle_command_note(tracker, description, finish, now)
    IN  /\ tracker.active # None => TotalNotes < MaxNotes
        /\ Command("cmd_note", out)
        /\ sinceBegin' = IF out.result.ok
                         THEN [sinceBegin EXCEPT !.pushes = @ + 1] ELSE NoHistory
        /\ preEnd' = IF tracker.active # None /\ out.result.ok /\ out.self.active = None
                     THEN Some(push_note(tracker, description, now).self) ELSE None
        /\ endLog' = IF tracker.active # None /\ out.result.ok /\ out.self.active = None
                     THEN Append(endLog, out.self.finished[Len(out.self.finished)])
                     ELSE endLog

CmdAmend(description) ==
    LET out == handle_command_amend(tracker, description)
    IN  /\ Command("cmd_amend", out)
        /\ KeepHistory
        /\ preEnd' = None
        /\ UNCHANGED endLog

CmdResume ==
    LET out == handle_command_resume(tracker)
    IN  /\ Command("cmd_resume", out)
        /\ sinceBegin' = IF out.result.ok THEN NoHistory ELSE sinceBegin
        /\ preEnd' = IF out.result.ok THEN preEnd ELSE None
        /\ endLog' = IF out.result.ok THEN Unlog(endLog, out.self.active[1]) ELSE endLog

CmdEnd ==
    LET out == handle_command_end(tracker)
    IN  /\ Command("cmd_end", out)
        /\ sinceBegin' = IF out.result.ok THEN sinceBegin ELSE NoHistory
        /\ preEnd' = IF out.result.ok THEN Some(tracker) ELSE None
        /\ endLog' = IF out.result.ok THEN Append(endLog, tracker.active[1]) ELSE endLog

CmdCancel ==
    LET out == handle_command_cancel(tracker)
    IN  /\ Command("cmd_cancel", out)
        /\ sinceBegin' = NoHistory
        /\ preEnd' = None
        /\ UNCHANGED endLog

CmdStatus ==
    \E out \in {handle_command_status(tracker)} :
        /\ Command("cmd_status", out)
        /\ KeepHistory
        /\ preEnd' = None
        /\ UNCHANGED endLog

CmdList(skip, take, order) ==
    \E out \in {handle_command_list(tracker, ListOptions(skip, take, order))} :
        /\ Command("cmd_list", out)
        /\ KeepHistory
        /\ preEnd' = None
        /\ UNCHANGED endLog

CmdExport(strategy) ==
    \E out \in {handle_command_export(tracker, strategy)} :
        /\ Command("cmd_export", out)
        /\ KeepHistory
        /\ preEnd' = None
        /\ UNCHANGED endLog

\* the clear command: main runs the handler and saves when it reports a change
CmdClear ==
    LET out == handle_command_clear(tracker)
    IN  /\ tracker' = out.self
        /\ lastOp' = "cmd_clear"
        /\ lastResult' = out.result.err
        /\ lastCount' = 0
        /\ modified' = (out.result.ok /\ out.result.val)
        /\ saved' = main_saves(out.result)
        /\ KeepHistory
        /\ preEnd' = None
        /\ snapshot' = None
        /\ UNCHANGED <<fs, savePc, today, parsed>>
        /\ endLog' = IF tracker.active = None THEN <<>> ELSE endLog
        /\ UNCHANGED now

\* a save/load cycle: the tracker is written to the file and the next run of the
\* program loads what was written
SaveLoad ==
    \E content \in {write(tracker)} : \E loaded \in {init(content)} :
        /\ snapshot' = Some(content)
        /\ UNCHANGED <<fs, savePc, today, parsed>>
        /\ tracker' = IF loaded.ok THEN loaded.val ELSE tracker
        /\ lastOp' = "save_load"
        /\ lastResult' = loaded.err
        /\ lastCount' = IF loaded.ok THEN 0 ELSE loaded.val
        /\ modified' = FALSE
        /\ saved' = TRUE
        /\ KeepHistory
        /\ preEnd' = None
        /\ UNCHANGED <<now, endLog>>

Next ==
    \/ Tick
    \/ \E d \in Descriptions : Begin(d)
    \/ \E d \in Descriptions : PushNote(d)
    \/ \E d \in Amendments : Amend(d)
    \/ End
    \/ Resume
    \/ Cancel
    \/ Clear
    \/ \E skip \in Skips, take \in Takes, order \in Orders : Finished(skip, take, order)
    \/ CmdClear
    \/ SaveLoad

Spec == Init /\ [][Next]_vars

\* the program used from the command line only: every step is one run of it
NextCli ==
    \/ Tick
    \/ \E d \in Descriptions : CmdStart(d)
    \/ \E d \in Descriptions, finish \in BOOLEAN : CmdNote(d, finish)
    \/ \E d \in Amendments : CmdAmend(d)
    \/ CmdResume
    \/ CmdEnd
    \/ CmdCancel
    \/ CmdClear
    \/ CmdStatus
    \/ \E skip \in Skips, take \in Takes, order \in Orders : CmdList(skip, take, order)
    \/ \E strategy \in ExportStrategies : CmdExport(strategy)

SpecCli == Init /\ [][NextCli]_vars

----------------------------------------------------------------------------
(* Loading a file somebody may have edited by hand *)

\* the instants the notes of a file carry
FileTimes == {T0 + k * TickSeconds : k \in 0 .. MaxTicks}

\* the numbers of notes of the boxes of a file: of the active box, and of the finished boxes
ActiveLens == {None} \cup {Some(n) : n \in 0 .. MaxNotes}

FinishedLens == UNION {[1 .. k -> 0 .. MaxNotes] : k \in 0 .. MaxFileBoxes}

RECURSIVE Sum(_)
Sum(lens) == IF lens = <<>> THEN 0 ELSE Head(lens) + Sum(Tail(lens))

\* the i-th note of a file, counted across its boxes; neighbours differ in their description
FileNote(i, time) == TimeBoxNote(time, IF i % 2 = 1 THEN <<"A">> ELSE <<"B">>)

\* the box that holds the n notes after the first from notes of the file
FileBox(from, n, times) == TimeBox([i \in 1 .. n |-> FileNote(from + i, times[from + i])])

\* the tracker serde reads from a file with boxes of these lengths and notes of these times
FileContent(a, f, times) ==
    Tracker([i \in 1 .. Len(a) |-> FileBox(0, a[1], times)],
            [j \in 1 .. Len(f) |-> FileBox(Sum(a) + Sum(SubSeq(f, 1, j - 1)), f[j], times)])

InitLoad ==
    /\ \E a \in ActiveLens, f \in FinishedLens :
          /\ Sum(a) + Sum(f) <= MaxNotes
          /\ \E times \in [1 .. Sum(a) + Sum(f) -> FileTimes] :
                snapshot = Some(FileContent(a, f, times))
    /\ tracker = Tracker(None, <<>>)
    /\ now = T0 + MaxTicks * TickSeconds
    /\ lastOp = "init"
    /\ lastResult = "Ok"
    /\ lastCount = 0
    /\ modified = FALSE
    /\ saved = FALSE
    /\ sinceBegin = NoHistory
    /\ preEnd = None
    /\ endLog = <<>>
    /\ fs = NoFiles
    /\ savePc = "idle"
    /\ today = local_date(T0)
    /\ parsed = None

\* the program starts, JsonFileLoadingStrategy::init has read the file: tracker.assert_valid()
AssertValid ==
    /\ lastOp = "init"
    /\ snapshot # None
    /\ \E valid \in {assert_valid(snapshot[1])} :
        /\ lastOp' = "assert_valid"
        /\ lastResult' = valid.err
        /\ lastCount' = IF valid.ok THEN 0 ELSE valid.val
        /\ UNCHANGED <<tracker, now, modified, saved, sinceBegin, preEnd, snapshot, endLog,
                       fs, savePc, today, parsed>>

\* InMemoryTimeTracker::init with the JsonFileLoadingStrategy returns: what it makes of
\* the validation's result
Load ==
    /\ lastOp = "assert_valid"
    /\ snapshot # None
    /\ \E loaded \in {init(snapshot[1])} :
        /\ tracker' = IF loaded.ok THEN loaded.val ELSE tracker
        /\ lastOp' = "load"
        /\ lastResult' = loaded.err
        /\ lastCount' = IF loaded.ok THEN 0 ELSE loaded.val
        /\ UNCHANGED <<now, modified, saved, sinceBegin, preEnd, snapshot, endLog, fs, savePc, today, parsed>>

NextLoad == AssertValid \/ Load

SpecLoad == InitLoad /\ [][NextLoad]_vars

\* a run of the program: the file is loaded, and once that has succeeded the
\* operations are called; the clock stands at or after every time of the file
NextRun ==
    \/ AssertValid
    \/ Load
    \/ /\ lastOp \notin {"init", "assert_valid"}
       /\ lastOp = "load" => lastResult = "Ok"
       /\ \/ \E d \in Descriptions : Begin(d)
          \/ \E d \in Descriptions : PushNote(d)
          \/ \E d \in Amendments : Amend(d)
          \/ End
          \/ Resume
          \/ Cancel
          \/ Clear
          \/ SaveLoad

SpecRun == InitLoad /\ [][NextRun]_vars

----------------------------------------------------------------------------
(* A tracker of many finished boxes: a page of them is listed, or they are exported *)

MaxBoxes == 26

Builds == {"debug", "release"}

\* the pages and page sizes asked for: small ones, and ones whose product leaves the word
PageArgs == {0, 1, 2, 3, (UsizeMax + 1) \div 2, UsizeMax}

\* n finished boxes in the order of their starts, with or without an active box
InitPages ==
    /\ \E n \in 0 .. MaxBoxes, a \in {None, Some(TimeBox(<<TimeBoxNote(T0 + (MaxBoxes + 1) * TickSeconds, <<"A">>)>>))} :
          tracker = Tracker(a, [i \in 1 .. n |-> TimeBox(<<TimeBoxNote(T0 + i * TickSeconds, <<"A">>)>>)])
    /\ now = T0 + (MaxBoxes + 2) * TickSeconds
    /\ lastOp = "init"
    /\ lastResult = "Ok"
    /\ lastCount = 0
    /\ modified = FALSE
    /\ saved = FALSE
    /\ sinceBegin = NoHistory
    /\ preEnd = None
    /\ snapshot = None
    /\ endLog = <<>>
    /\ fs = NoFiles
    /\ savePc = "idle"
    /\ today = local_date(T0)
    /\ parsed = None

\* finished(ListOptions::new().order(order).page(page_no, page_size)): the product
\* page * page_size that leaves the machine word panics in a debug build and wraps in a
\* release build; lastCount takes the number of boxes listed
FinishedPage(page_no, page_size, order, build) ==
    \E out \in {finished(tracker, page(ListOptions(0, 25, order), page_no, page_size))} :
        /\ lastOp' = "finished_page"
        /\ lastResult' = IF build = "debug" /\ page_no * page_size > UsizeMax
                         THEN "Panic" ELSE out.err
        /\ lastCount' = IF build = "debug" /\ page_no * page_size > UsizeMax
                        THEN 0 ELSE Len(out.val.items)
        /\ modified' = FALSE
        /\ saved' = FALSE
        /\ UNCHANGED <<tracker, now, sinceBegin, preEnd, snapshot, endLog, fs, savePc, today,
                       parsed>>

NextPages ==
    \/ \E page_no, page_size \in PageArgs, order \in Orders, build \in Builds :
          FinishedPage(page_no, page_size, order, build)
    \/ \E strategy \in ExportStrategies : CmdExport(strategy)
    \/ SaveLoad

SpecPages == InitPages /\ [][NextPages]_vars

----------------------------------------------------------------------------
(* One run of the program on the storage directory: init, or a save after a command *)

StoredBox(i) == TimeBox(<<TimeBoxNote(T0 + i * TickSeconds, <<"A">>)>>)

\* the trackers a tasks file holds, and the ones a command leaves to be saved
SaveTrackers ==
    {Tracker(a, [i \in 1 .. n |-> StoredBox(i)]) :
        a \in {None, Some(StoredBox(MaxFileBoxes + 1))}, n \in 0 .. MaxFileBoxes}

\* the directory with or without a tasks file; the run has loaded the file if there
\* is one, and its command has left the tracker that is to be saved
InitFiles ==
    /\ \E old \in {None} \cup {Some(t) : t \in SaveTrackers}, ignore \in {None, Some(File(<<"*">>))} :
          /\ snapshot = old
          /\ fs = [NoFiles EXCEPT ![TasksFile] = IF old = None THEN None ELSE Some(File(old[1])),
                                  ![GitIgnore] = ignore]
    /\ tracker \in SaveTrackers
    /\ now \in Times
    /\ lastOp = "init"
    /\ lastResult = "Ok"
    /\ lastCount = 0
    /\ modified = FALSE
    /\ saved = FALSE
    /\ sinceBegin = NoHistory
    /\ preEnd = None
    /\ endLog = <<>>
    /\ savePc = "idle"
    /\ today = local_date(T0)
    /\ parsed = None

\* the init command
CmdInit ==
    \E out \in {handle_command_init(fs, TasksFile)} :
        /\ lastOp = "init"
        /\ savePc = "idle"
        /\ fs' = out.fs
        /\ lastOp' = "cmd_init"
        /\ lastResult' = out.result.err
        /\ UNCHANGED <<tracker, now, lastCount, modified, saved, sinceBegin, preEnd, snapshot,
                       endLog, savePc, today, parsed>>

\* save_json_to_disk: File::create(&path_swap)
SaveCreate ==
    /\ lastOp = "init"
    /\ savePc = "idle"
    /\ snapshot # None
    /\ fs' = create(fs, path_swap(TasksFile, now))
    /\ savePc' = "created"
    /\ lastOp' = "save"
    /\ modified' = TRUE
    /\ UNCHANGED <<tracker, now, lastResult, lastCount, saved, sinceBegin, preEnd, snapshot,
                   endLog, today, parsed>>

\* save_json_to_disk: tracker.to_writer(strategy, &mut file_swap), piece by piece
SaveWrite ==
    /\ savePc \in {"created", "writing"}
    /\ fs' = write_chunk(fs, path_swap(TasksFile, now), write(tracker))
    /\ savePc' = IF Complete(fs'[path_swap(TasksFile, now)][1]) THEN "written" ELSE "writing"
    /\ UNCHANGED <<tracker, now, lastOp, lastResult, lastCount, modified, saved, sinceBegin,
                   preEnd, snapshot, endLog, today, parsed>>

\* save_json_to_disk: std::fs::rename(&path_swap, path)
SaveRename ==
    /\ savePc = "written"
    /\ fs' = rename(fs, path_swap(TasksFile, now), TasksFile)
    /\ savePc' = "renamed"
    /\ saved' = TRUE
    /\ UNCHANGED <<tracker, now, lastOp, lastResult, lastCount, modified, sinceBegin,
                   preEnd, snapshot, endLog, today, parsed>>

\* the process dies between two steps of the save, or an I/O error ends the save there
Crash ==
    /\ savePc \in {"created", "writing", "written"}
    /\ savePc' = "crashed"
    /\ lastResult' = "Crashed"
    /\ UNCHANGED <<tracker, now, lastOp, lastCount, modified, saved, sinceBegin, preEnd,
                   snapshot, endLog, fs, today, parsed>>

NextFiles == CmdInit \/ SaveCreate \/ SaveWrite \/ SaveRename \/ Crash

SpecFiles == InitFiles /\ [][NextFiles]_vars

----------------------------------------------------------------------------
(* Two runs of the program save to the same tasks file at once. savePc holds, for   *)
(* each run, how far its save_json_to_disk has come (pc), the time it took its swap *)
(* name from, the tracker it saves (data), the pieces it has written (offset) and   *)
(* the path under which the file it holds open is found (fd; None once the file has *)
(* been replaced and is no longer in the directory)                                 *)

Savers == {1, 2}

Saver(pc, time, data, offset, fd) ==
    [pc |-> pc, time |-> time, data |-> data, offset |-> offset, fd |-> fd]

\* the tasks file holds the empty tracker; the two runs save different trackers, at
\* the same microsecond or at different ones
InitSavers ==
    /\ \E d1, d2 \in SaveTrackers, t1, t2 \in Times :
          /\ d1 # d2
          /\ savePc = [p \in Savers |-> Saver("idle", IF p = 1 THEN t1 ELSE t2,
                                               IF p = 1 THEN d1 ELSE d2, 0, None)]
    /\ fs = [NoFiles EXCEPT ![TasksFile] = Some(File(write(Tracker(None, <<>>))))]
    /\ tracker = Tracker(None, <<>>)
    /\ now = T0
    /\ lastOp = "init"
    /\ lastResult = "Ok"
    /\ lastCount = 0
    /\ modified = FALSE
    /\ saved = FALSE
    /\ sinceBegin = NoHistory
    /\ preEnd = None
    /\ snapshot = None
    /\ endLog = <<>>
    /\ today = local_date(T0)
    /\ parsed = None

SaverStep(p, files, state) ==
    /\ fs' = files
    /\ savePc' = state
    /\ lastOp' = "save"
    /\ UNCHANGED <<tracker, now, lastResult, lastCount, modified, saved, sinceBegin, preEnd,
                   snapshot, endLog, today, parsed>>

\* save_json_to_disk: File::create(&path_swap); a file of that name is truncated and
\* stays the file other handles are open on
SaverCreate(p) ==
    /\ savePc[p].pc = "idle"
    /\ SaverStep(p, create(fs, path_swap(TasksFile, savePc[p].time)),
                 [savePc EXCEPT ![p].pc = "created",
                                ![p].fd = Some(path_swap(TasksFile, savePc[p].time))])

\* save_json_to_disk: tracker.to_writer(strategy, &mut file_swap), piece by piece, into
\* the file the handle is open on, wherever it is by now
SaverWrite(p) ==
    /\ savePc[p].pc \in {"created", "writing"}
    /\ SaverStep(p, IF savePc[p].fd = None THEN fs
                    ELSE write_at(fs, savePc[p].fd[1], write(savePc[p].data), savePc[p].offset),
                 [savePc EXCEPT ![p].offset = @ + 1,
                                ![p].pc = IF savePc[p].offset + 1 = WriteChunks
                                          THEN "written" ELSE "writing"])

\* save_json_to_disk: std::fs::rename(&path_swap, path), which fails when the swap
\* file is no longer there; the handles open on the files follow them
SaverRename(p) ==
    LET from == path_swap(TasksFile, savePc[p].time)
    IN  /\ savePc[p].pc = "written"
        /\ IF fs[from] = None
           THEN SaverStep(p, fs, [savePc EXCEPT ![p].pc = "failed"])
           ELSE SaverStep(p, rename(fs, from, TasksFile),
                          [q \in Savers |->
                              [savePc[q] EXCEPT
                                  !.pc = IF q = p THEN "renamed" ELSE @,
                                  !.fd = IF @ = Some(from) THEN Some(TasksFile)
                                         ELSE IF @ = Some(TasksFile) THEN None ELSE @]])

NextSavers == \E p \in Savers : SaverCreate(p) \/ SaverWrite(p) \/ SaverRename(p)

SpecSavers == InitSavers /\ [][NextSavers]_vars

----------------------------------------------------------------------------
(* The derived attributes of one TimeBox, which any caller can build from its notes *)

BoxOps == {"time_start", "time_stop", "timedelta_total", "duration_in_minutes",
           "timedelta_active"}

box_call(op, tb, utc_now) ==
    CASE op = "time_start" -> time_start(tb)
      [] op = "time_stop" -> time_stop(tb)
      [] op = "timedelta_total" -> timedelta_total(tb)
      [] op = "duration_in_minutes" -> duration_in_minutes(tb)
      [] op = "timedelta_active" -> timedelta_active(tb, utc_now)

\* a box of up to MaxNotes notes in any order of their times, held as the active box
InitBox ==
    /\ \E n \in 0 .. MaxNotes : \E times \in [1 .. n -> FileTimes] :
          tracker = Tracker(Some(FileBox(0, n, times)), <<>>)
    /\ now = T0 + MaxTicks * TickSeconds
    /\ lastOp = "init"
    /\ lastResult = "Ok"
    /\ lastCount = 0
    /\ modified = FALSE
    /\ saved = FALSE
    /\ sinceBegin = NoHistory
    /\ preEnd = None
    /\ snapshot = None
    /\ endLog = <<>>
    /\ fs = NoFiles
    /\ savePc = "idle"
    /\ today = local_date(T0)
    /\ parsed = None

\* one of the attributes is asked of the box; lastCount takes the value it returns
BoxCall(op) ==
    \E r \in {box_call(op, tracker.active[1], now)} :
        /\ lastOp = "init"
        /\ lastOp' = op
        /\ lastResult' = r.err
        /\ lastCount' = r.val
        /\ UNCHANGED <<tracker, now, modified, saved, sinceBegin, preEnd, snapshot, endLog,
                       fs, savePc, today, parsed>>

NextBox == \E op \in BoxOps : BoxCall(op)

SpecBox == InitBox /\ [][NextBox]_vars

----------------------------------------------------------------------------
(* A listing with --filter: the argument is parsed, then the finished boxes are listed *)

FilterNames == {"today", "yesterday", "this-week", "last-week", "this-month", "last-month"}

\* the arguments given: the names, and texts of three days and of a day that does not
\* exist, alone, in pairs and three at once
FilterArgs ==
    LET DateTexts == {<<2024, 1, 1>>, <<2024, 1, 5>>, <<2024, 1, 31>>, <<2024, 2, 30>>}
    IN  {Named(n) : n \in FilterNames}
            \cup {Text(<<t>>) : t \in DateTexts}
            \cup {Text(<<t, u>>) : t, u \in DateTexts}
            \cup {Text(<<<<2024, 1, 1>>, <<2024, 1, 5>>, <<2024, 1, 31>>>>)}

\* the instant at which it is the given time of day on the given local date
Instant(y, m, d, seconds) == from_ymd_opt(y, m, d)[1] * SecondsPerDay + seconds - UtcOffset

\* boxes begun on 2024-01-05 half an hour after local midnight, on 2024-01-06 at noon
\* and on 2024-02-01 a minute before local midnight
ScenarioBoxes ==
    <<TimeBox(<<TimeBoxNote(Instant(2024, 1, 5, 30 * SecondsPerMinute), <<"A">>)>>),
      TimeBox(<<TimeBoxNote(Instant(2024, 1, 6, 12 * 60 * SecondsPerMinute), <<"B">>),
                TimeBoxNote(Instant(2024, 1, 7, 0), <<"A">>)>>),
      TimeBox(<<TimeBoxNote(Instant(2024, 2, 1, SecondsPerDay - SecondsPerMinute), <<"B">>)>>)>>

InitDates ==
    /\ today \in DaysBeforeYear(FirstYear) .. DaysBeforeYear(FirstYear + MaxYears) - 1
    /\ now = today * SecondsPerDay
    /\ tracker = Tracker(None, ScenarioBoxes)
    /\ lastOp = "init"
    /\ lastResult = "Ok"
    /\ lastCount = 0
    /\ modified = FALSE
    /\ saved = FALSE
    /\ sinceBegin = NoHistory
    /\ preEnd = None
    /\ snapshot = None
    /\ endLog = <<>>
    /\ fs = NoFiles
    /\ savePc = "idle"
    /\ parsed = None

\* clap parses the argument of --filter
ParseDateFilter(s) ==
    /\ lastOp = "init"
    /\ \E r \in {parse_date_filter(s, today)} :
        /\ parsed' = Some(r)
        /\ lastOp' = "parse_date_filter"
        /\ lastResult' = r.err
        /\ UNCHANGED <<tracker, now, lastCount, modified, saved, sinceBegin, preEnd, snapshot,
                       endLog, fs, savePc, today>>

\* the finished boxes are listed with the filter; lastCount takes the number of items
ListFiltered(order) ==
    /\ lastOp = "parse_date_filter"
    /\ parsed[1].ok
    /\ \E out \in {finished_filtered(tracker, ListOptions(0, UsizeMax, order), Some(parsed[1].val))} :
          /\ lastOp' = "finished"
          /\ lastResult' = out.err
          /\ lastCount' = Len(out.val.items)
    /\ UNCHANGED <<tracker, now, modified, saved, sinceBegin, preEnd, snapshot, endLog,
                   fs, savePc, today, parsed>>

NextDates ==
    \/ \E s \in FilterArgs : ParseDateFilter(s)
    \/ \E order \in Orders : ListFiltered(order)

SpecDates == InitDates /\ [][NextDates]_vars

----------------------------------------------------------------------------
(* Properties *)

Last(s) == s[Len(s)]

\* the notes are in non-decreasing time order
NotesSorted(notes) == \A i \in 1 .. Len(notes) - 1 : notes[i].time <= notes[i + 1].time

BeginStep == \E d \in Descriptions : Begin(d)

\* C1: begin called while a time box is active fails with
\* ActiveTimeBoxExistsAlready and changes neither the active box nor the
\* finished collection.
C1_BeginWhileActiveRejected ==
    [][(tracker.active # None /\ BeginStep)
         => (lastResult' = "ActiveTimeBoxExistsAlready" /\ tracker' = tracker)]_vars

C1_Witness ==
    /\ lastOp = "begin"
    /\ lastResult = "ActiveTimeBoxExistsAlready"
    /\ tracker.active # None
    /\ Len(tracker.active[1].notes) >= 2
    /\ tracker.finished # <<>>

\* the box end() has just appended was begun with "A" at some T, noted with
\* "B" at T + 10 min, and end() was called at T + 20 min
C2_Scenario ==
    /\ lastOp = "end"
    /\ lastResult = "Ok"
    /\ sinceBegin = [fresh |-> TRUE, pushes |-> 1]
    /\ LET notes == Last(tracker.finished).notes
       IN  /\ Len(notes) >= 2
           /\ notes[1].description = <<"A">>
           /\ notes[2].description = <<"B">>
           /\ notes[2].time = notes[1].time + 10 * SecondsPerMinute
           /\ now = notes[1].time + 20 * SecondsPerMinute

\* C2 as claimed: begin("A") at T, push_note("B") at T + 10 min, end() at
\* T + 20 min leaves a finished box of 2 notes and a duration of 20 minutes.
C2_DurationUpToEnd ==
    C2_Scenario =>
        /\ Len(Last(tracker.finished).notes) = 2
        /\ duration_in_minutes(Last(tracker.finished)) = Ok(<<20, 0>>)

\* C2 as amended: in that scenario the finished box has 2 notes and a
\* duration of 10 minutes, from its first note to its last note; the time
\* end() is called at is not recorded.
C2_DurationUpToLastNote ==
    C2_Scenario =>
        /\ Len(Last(tracker.finished).notes) = 2
        /\ duration_in_minutes(Last(tracker.finished)) = Ok(<<10, 0>>)
        /\ time_stop(Last(tracker.finished)).val < now

C2_Witness == C2_Scenario

\* C3: after begin, n successful push_note calls and end, with a clock that
\* never goes backwards, the box appended to finished has 1 + n notes in
\* non-decreasing time order, and time_start <= time_stop.
C3_BeginPushEnd ==
    (lastOp = "end" /\ lastResult = "Ok" /\ sinceBegin.fresh) =>
        LET tb == Last(tracker.finished)
        IN  /\ Len(tb.notes) = 1 + sinceBegin.pushes
            /\ NotesSorted(tb.notes)
            /\ time_start(tb).ok /\ time_stop(tb).ok
            /\ time_start(tb).val <= time_stop(tb).val

C3_Witness ==
    /\ lastOp = "end" /\ lastResult = "Ok" /\ sinceBegin.fresh
    /\ sinceBegin.pushes = 2
    /\ time_start(Last(tracker.finished)).val < time_stop(Last(tracker.finished)).val

\* C4: end followed immediately by resume is a round trip: the active box
\* and the finished collection are what they were before end.
C4_EndResumeRoundTrip ==
    (lastOp = "resume" /\ lastResult = "Ok" /\ preEnd # None) => tracker = preEnd[1]

C4_Witness ==
    /\ lastOp = "resume" /\ lastResult = "Ok" /\ preEnd # None
    /\ Len(tracker.active[1].notes) >= 2
    /\ tracker.finished # <<>>

\* C5: the clear command is a no-op while a time box is active: it removes
\* no finished box, leaves the active box unchanged, reports no mutation and
\* nothing is saved.
C5_ClearCommandNoOpWhileActive ==
    [][(tracker.active # None /\ CmdClear)
         => (tracker' = tracker /\ lastResult' = "Ok" /\ ~modified' /\ ~saved')]_vars

C5_Witness ==
    /\ lastOp = "cmd_clear"
    /\ tracker.active # None
    /\ Len(tracker.finished) >= 2

\* C6 as claimed: the tracker's own clear(), called while a time box is
\* active, returns 0 and removes no finished time box.
C6_ClearRefusesWhileActive ==
    [][(tracker.active # None /\ Clear)
         => (lastCount' = 0 /\ tracker'.finished = tracker.finished)]_vars

\* C6 as amended: the tracker's own clear() has no guard: called while a time
\* box is active it removes every finished time box and returns how many
\* there were, leaving the active box unchanged.
C6_ClearRemovesAllWhileActive ==
    [][(tracker.active # None /\ Clear)
         => /\ lastResult' = "Ok"
            /\ lastCount' = Len(tracker.finished)
            /\ tracker'.finished = <<>>
            /\ tracker'.active = tracker.active]_vars

C6_Witness ==
    /\ lastOp = "clear"
    /\ lastResult = "Ok"
    /\ lastCount >= 2
    /\ tracker.active # None

\* finished() has just been called on this tracker (every reachable tracker is
\* listed: the call is always possible and leaves the tracker as it is)
Listed == lastOp = "finished" /\ lastResult = "Ok"

\* the items finished() returns for these options
Items(skip, take, order) == finished(tracker, ListOptions(skip, take, order)).val.items

\* C7: skip and take are applied after sorting: items is positions
\* [skip, skip + take) of the whole collection sorted in options.order.
C7_PaginationAfterSorting ==
    Listed => \A skip \in Counts, take \in Counts, order \in Orders :
        Items(skip, take, order)
            = skip_take(sort_by_time_start(tracker.finished, order), skip, take)

RECURSIVE ConcatPages(_, _, _, _)
\* pages p .. n of size k, one after the other
ConcatPages(k, order, p, n) ==
    IF p > n THEN <<>>
    ELSE finished(tracker, page(ListOptions(0, 0, order), p, k)).val.items
             \o ConcatPages(k, order, p + 1, n)

\* C8: for every page size k >= 1 and either order, the pages take = k,
\* skip = k * p return no position twice and, one after the other, are the
\* full result list of that order.
C8_PagesConcatenate ==
    Listed => \A k \in 1 .. MaxNotes, order \in Orders :
        ConcatPages(k, order, 0, (Len(tracker.finished) + k - 1) \div k)
            = Items(0, UsizeMax, order)

Reverse(s) == [i \in 1 .. Len(s) |-> s[Len(s) + 1 - i]]

\* the time_start the listing sorts each item by
StartTimes(items) == [i \in 1 .. Len(items) |-> unwrap_or_default(time_start(items[i]))]

\* C9 as claimed: with skip = 0 and maximal take, the Ascending items are
\* the exact reverse of the Descending items, also when boxes share a
\* time_start.
C9_AscendingReversesDescending ==
    Listed => Items(0, UsizeMax, "Ascending") = Reverse(Items(0, UsizeMax, "Descending"))

\* C9 as amended: the time_starts of the Ascending items are the reverse of
\* the time_starts of the Descending items, and the items themselves are the
\* exact reverse when no two finished boxes share a time_start (boxes with
\* the same time_start keep their stored order in both listings).
C9_ReverseUpToTies ==
    Listed =>
    LET asc == Items(0, UsizeMax, "Ascending")
        desc == Items(0, UsizeMax, "Descending")
    IN  /\ StartTimes(asc) = Reverse(StartTimes(desc))
        /\ (\A i, j \in 1 .. Len(asc) : i # j => StartTimes(asc)[i] # StartTimes(asc)[j])
               => asc = Reverse(desc)
        /\ \A i, j \in 1 .. Len(tracker.finished) :
               (i < j /\ StartTimes(tracker.finished)[i] = StartTimes(tracker.finished)[j])
                   => /\ \E a, b \in 1 .. Len(asc) :
                             a < b /\ asc[a] = tracker.finished[i] /\ asc[b] = tracker.finished[j]
                      /\ \E a, b \in 1 .. Len(desc) :
                             a < b /\ desc[a] = tracker.finished[i] /\ desc[b] = tracker.finished[j]

C9_Witness ==
    /\ Listed
    /\ Len(tracker.finished) = 3
    /\ StartTimes(tracker.finished)[1] = StartTimes(tracker.finished)[2]
    /\ tracker.finished[1] # tracker.finished[2]
    /\ StartTimes(tracker.finished)[2] < StartTimes(tracker.finished)[3]

\* C10: total is the number of all stored finished time boxes, for every
\* skip, take and order, also when items is shorter or empty.
C10_TotalCountsAll ==
    Listed => \A skip \in Counts, take \in Counts, order \in Orders :
        LET result == finished(tracker, ListOptions(skip, take, order))
        IN  result.ok /\ result.val.total = Len(tracker.finished)

C10_Witness ==
    /\ Listed
    /\ Len(tracker.finished) = 3
    /\ Len(Items(1, 1, "Ascending")) = 1
    /\ Items(3, UsizeMax, "Descending") = <<>>

----------------------------------------------------------------------------
(* Loading: SpecLoad *)

Loaded == lastOp = "load" /\ lastResult = "Ok"

NoteLess(boxes) == {i \in 1 .. Len(boxes) : boxes[i].notes = <<>>}

\* C11: loading a file that holds a box with zero notes fails, with
\* ActiveTimeBoxIsMissingNote if the active box has none and with
\* TimeBoxIsMissingNote and the index of the box if a finished box has none,
\* whether or not the file also holds notes that are out of order
C11_NoteLessBoxFailsLoad ==
    (lastOp = "load" /\ NoteLess(snapshot[1].active \o snapshot[1].finished) # {}) =>
        \/ lastResult = "ActiveTimeBoxIsMissingNote" /\ NoteLess(snapshot[1].active) # {}
        \/ lastResult = "TimeBoxIsMissingNote" /\ lastCount + 1 \in NoteLess(snapshot[1].finished)

Boxes(t) == t.active \o t.finished

\* s and t hold the same elements the same number of times
IsPermutation(s, t) ==
    /\ Len(s) = Len(t)
    /\ \A i \in 1 .. Len(s) :
          Cardinality({j \in 1 .. Len(s) : s[j] = s[i]})
              = Cardinality({j \in 1 .. Len(t) : t[j] = s[i]})

Bijections(n) == {p \in [1 .. n -> 1 .. n] : \A i, j \in 1 .. n : p[i] = p[j] => i = j}

\* the boxes of before, in some order, each with its own notes in some order
SameBoxes(before, after) ==
    /\ Len(before) = Len(after)
    /\ \E p \in Bijections(Len(before)) :
          \A i \in 1 .. Len(before) : IsPermutation(before[i].notes, after[p[i]].notes)

StartsSorted(boxes) ==
    \A i \in 1 .. Len(boxes) - 1 :
        unwrap_or_default(time_start(boxes[i])) <= unwrap_or_default(time_start(boxes[i + 1]))

\* C12: loading a file without a note-less box succeeds, also when notes are out
\* of order; in the loaded tracker the notes of every box are in non-decreasing
\* order of time, the finished boxes are in non-decreasing order of time_start, and
\* the active box and the finished boxes hold the notes they held in the file
C12_UnsortedFileIsSorted ==
    (lastOp = "load" /\ NoteLess(Boxes(snapshot[1])) = {}) =>
        /\ lastResult = "Ok"
        /\ \A i \in 1 .. Len(Boxes(tracker)) : NotesSorted(Boxes(tracker)[i].notes)
        /\ StartsSorted(tracker.finished)
        /\ SameBoxes(snapshot[1].active, tracker.active)
        /\ SameBoxes(snapshot[1].finished, tracker.finished)

\* a file with a finished box whose notes are out of order, and finished boxes
\* out of order, was loaded
C12_Witness ==
    /\ Loaded
    /\ \E i \in 1 .. Len(snapshot[1].finished) : ~NotesSorted(snapshot[1].finished[i].notes)
    /\ ~StartsSorted(snapshot[1].finished)

\* C13: in every state reached from an empty tracker or from a successfully loaded
\* one, the active box and every finished box hold at least one note
C13_EveryBoxHasNote == NoteLess(Boxes(tracker)) = {}

\* some note is earlier than the note before it
Descends(notes) == \E i \in 2 .. Len(notes) : notes[i].time < notes[i - 1].time

RECURSIVE Flat(_)
\* the notes of the boxes as one sequence
Flat(boxes) == IF boxes = <<>> THEN <<>> ELSE Head(boxes).notes \o Flat(Tail(boxes))

Validated == lastOp = "assert_valid"

ReportsUnsorted == lastResult = "TimeBoxNoteIsNotLinearlySorted"

\* C28 as stated: validation reports an unsorted note exactly when the notes of the
\* active box descend somewhere, or the notes of all finished boxes read as one
\* sequence do
C28_UnsortedIffSomeDescent ==
    Validated =>
        (ReportsUnsorted <=>
            \/ snapshot[1].active # None /\ Descends(snapshot[1].active[1].notes)
            \/ Descends(Flat(snapshot[1].finished)))

\* C28: validation reports an unsorted note exactly when the notes of the active box
\* descend somewhere, or the active box is absent or has notes and the finished boxes
\* up to some box, none of them without notes, read as one sequence descend
\* somewhere; a box without notes met first is reported instead, and the active
\* box is not compared with the finished ones
C28_UnsortedIffFirstFault ==
    Validated =>
        (ReportsUnsorted <=>
            \/ snapshot[1].active # None /\ Descends(snapshot[1].active[1].notes)
            \/ /\ snapshot[1].active = None \/ snapshot[1].active[1].notes # <<>>
               /\ \E k \in 1 .. Len(snapshot[1].finished) :
                     /\ \A j \in 1 .. k : snapshot[1].finished[j].notes # <<>>
                     /\ Descends(Flat(SubSeq(snapshot[1].finished, 1, k))))

\* unsorted is reported for a file whose boxes each hold one note: the second finished
\* box is earlier than the first, and the active box, later than both, goes unremarked
C28_Witness ==
    /\ Validated
    /\ ReportsUnsorted
    /\ snapshot[1].active # None
    /\ Len(snapshot[1].finished) = 2
    /\ \A i \in 1 .. 3 : Len(Boxes(snapshot[1])[i].notes) = 1
    /\ snapshot[1].finished[2].notes[1].time < snapshot[1].finished[1].notes[1].time
    /\ snapshot[1].finished[1].notes[1].time < snapshot[1].active[1].notes[1].time

\* C34: after a successful load, here of a file in which every box holds a note, the
\* loaded tracker passes the validation of the load, and saving it and loading it
\* again reports no unsorted note and gives the same tracker
C34_LoadedPassesValidation ==
    (Loaded /\ NoteLess(Boxes(snapshot[1])) = {}) =>
        /\ assert_valid(tracker).ok
        /\ assert_valid(write(tracker)).err # "TimeBoxNoteIsNotLinearlySorted"
        /\ init(write(tracker)) = Ok(tracker)

----------------------------------------------------------------------------
(* The operations: Spec *)

\* C14: in every state reached from an empty tracker, the clock never going
\* backwards, the notes of the active box and of every finished box are in
\* non-decreasing order of time
C14_NotesInTimeOrder ==
    \A i \in 1 .. Len(Boxes(tracker)) : NotesSorted(Boxes(tracker)[i].notes)

\* a note was pushed onto a resumed box after the clock had advanced
C14_Witness ==
    /\ lastOp = "push_note" /\ lastResult = "Ok"
    /\ ~sinceBegin.fresh /\ sinceBegin.pushes = 1
    /\ Len(tracker.active[1].notes) >= 2
    /\ Last(tracker.active[1].notes).time > tracker.active[1].notes[1].time

AmendStep == \E d \in Amendments : Amend(d)

\* C15: while a box is active no begin and no resume succeeds, and as long as it
\* stays active the box keeps its first note
C15_ActiveBoxKeepsFirstNote ==
    [][tracker.active # None =>
          /\ (BeginStep \/ Resume) => lastResult' # "Ok"
          /\ tracker'.active # None =>
                tracker'.active[1].notes[1] = tracker.active[1].notes[1]]_vars

\* C15, amended: while a box is active no begin and no resume succeeds, and as long
\* as it stays active the box keeps the time of its first note; the first note's
\* description changes only by amend on a box with a single note
C15_ActiveBoxKeepsStart ==
    [][tracker.active # None =>
          /\ (BeginStep \/ Resume) => lastResult' # "Ok"
          /\ tracker'.active # None =>
                /\ tracker'.active[1].notes[1].time = tracker.active[1].notes[1].time
                /\ tracker'.active[1].notes[1] # tracker.active[1].notes[1] =>
                      AmendStep /\ Len(tracker.active[1].notes) = 1]_vars

\* resume was refused while a box with two notes was active and a finished box existed
C15_Witness ==
    /\ lastOp = "resume" /\ lastResult = "ActiveTimeBoxExistsAlready"
    /\ tracker.active # None /\ Len(tracker.active[1].notes) >= 2
    /\ tracker.finished # <<>>

\* r is d without the whitespace at its two ends
Trimmed(d, r) ==
    /\ r # <<>> => r[1] \notin Whitespace /\ r[Len(r)] \notin Whitespace
    /\ \E i \in 1 .. Len(d) + 1, j \in 0 .. Len(d) :
          /\ r = SubSeq(d, i, j)
          /\ \A k \in 1 .. Len(d) : (k < i \/ k > j) => d[k] \in Whitespace

\* C17: amend on an active box replaces the description of the last note by the
\* trimmed description; the number of notes, the time of every note, the
\* descriptions of the earlier notes and the finished boxes stay as they were
C17_AmendReplacesLastDescription ==
    [][(tracker.active # None /\ lastOp' = "amend") =>
       \A d \in Amendments :
          Amend(d) =>
              /\ lastResult' = "Ok"
              /\ tracker'.active # None
              /\ tracker'.finished = tracker.finished
              /\ LET old == tracker.active[1].notes
                     new == tracker'.active[1].notes
                 IN  /\ Len(new) = Len(old)
                     /\ \A i \in 1 .. Len(old) : new[i].time = old[i].time
                     /\ \A i \in 1 .. Len(old) - 1 : new[i] = old[i]
                     /\ Trimmed(d, new[Len(new)].description)]_vars

\* amend(" A ") was called on a box of two notes, the first described "B",
\* while a finished box existed
C17_Witness ==
    /\ lastOp = "amend" /\ lastResult = "Ok"
    /\ Len(tracker.active[1].notes) >= 2
    /\ tracker.active[1].notes[1].description = <<"B">>
    /\ Last(tracker.active[1].notes).description = <<"A">>
    /\ tracker.finished # <<>>

\* C18: end() with an active box leaves no active box and appends the box, its
\* notes unchanged, behind the finished boxes, which keep their content and order
C18_EndAppendsActiveBox ==
    [][(tracker.active # None /\ End) =>
          /\ lastResult' = "Ok"
          /\ tracker'.active = None
          /\ Len(tracker'.finished) = Len(tracker.finished) + 1
          /\ Last(tracker'.finished) = tracker.active[1]
          /\ SubSeq(tracker'.finished, 1, Len(tracker.finished)) = tracker.finished]_vars

\* a box of two notes was ended behind an earlier finished box
C18_Witness ==
    /\ lastOp = "end" /\ lastResult = "Ok"
    /\ Len(tracker.finished) >= 2
    /\ Len(Last(tracker.finished).notes) >= 2
    /\ tracker.finished[1] # Last(tracker.finished)

\* C19: resume() fails with ActiveTimeBoxExistsAlready whenever a box is active,
\* also when there is no finished box, and with NoTimeBox when no box is active
\* and there is no finished box; both failures leave the tracker as it was
C19_ResumeFailuresChangeNothing ==
    [][Resume =>
          /\ tracker.active # None =>
                lastResult' = "ActiveTimeBoxExistsAlready" /\ tracker' = tracker
          /\ (tracker.active = None /\ tracker.finished = <<>>) =>
                lastResult' = "NoTimeBox" /\ tracker' = tracker]_vars

\* resume was refused for the active box while there was no finished box
C19_Witness ==
    /\ lastOp = "resume" /\ lastResult = "ActiveTimeBoxExistsAlready"
    /\ tracker.active # None /\ tracker.finished = <<>>

\* C20: a successful resume, after any operations and save/load cycles and with a
\* clock that never goes backwards, makes active the box that end() put into
\* finished last among the boxes still there
C20_ResumeReopensLastEnded ==
    [][(Resume /\ lastResult' = "Ok") =>
          /\ endLog # <<>>
          /\ tracker'.active = Some(Last(endLog))]_vars

\* resume reopened a box while another box, ended before it and begun at the
\* same instant, stays finished
C20_Witness ==
    /\ lastOp = "resume" /\ lastResult = "Ok"
    /\ tracker.finished # <<>>
    /\ Last(tracker.finished) # tracker.active[1]
    /\ time_start(Last(tracker.finished)) = time_start(tracker.active[1])

PushNoteStep == \E d \in Descriptions : PushNote(d)

BoxSet(t) == {Boxes(t)[i] : i \in 1 .. Len(Boxes(t))}

\* C21: cancel() with an active box leaves no active box and the finished boxes
\* as they were; the tracker keeps nothing of the cancelled box, and in every
\* later step a box the tracker did not hold before the step is the active box,
\* either begun in this step or the box active before with a note pushed or
\* amended, so that the cancelled box comes back neither as a finished box nor
\* by resume
C21_CancelDiscardsActiveBox ==
    [][/\ (tracker.active # None /\ Cancel) =>
              lastResult' = "Ok" /\ tracker' = Tracker(None, tracker.finished)
       /\ \A b \in BoxSet(tracker') \ BoxSet(tracker) :
              /\ tracker'.active = Some(b)
              /\ b \notin {tracker'.finished[i] : i \in 1 .. Len(tracker'.finished)}
              /\ \/ /\ tracker.active = None
                    /\ BeginStep
                    /\ Len(b.notes) = 1 /\ b.notes[1].time = now
                 \/ /\ tracker.active # None
                    /\ PushNoteStep \/ AmendStep]_vars

\* a box was cancelled while a finished box existed
C21_Witness ==
    /\ lastOp = "cancel" /\ lastResult = "Ok"
    /\ tracker.active = None /\ tracker.finished # <<>>

\* C22: with no active box the clear command removes every finished box and
\* leaves no box active; the clear() it calls returns the number of boxes that
\* were finished, and the command reports a change exactly when that number is
\* greater than zero
C22_ClearCommandWhileIdle ==
    [][tracker.active = None =>
          /\ CmdClear =>
                /\ lastResult' = "Ok"
                /\ tracker' = Tracker(None, <<>>)
                /\ modified' = (Len(tracker.finished) > 0)
                /\ saved' = modified'
          /\ Clear =>
                /\ lastResult' = "Ok"
                /\ tracker' = Tracker(None, <<>>)
                /\ lastCount' = Len(tracker.finished)]_vars

\* the clear command removed finished boxes and reported the change
C22_Witness ==
    /\ lastOp = "cmd_clear" /\ lastResult = "Ok"
    /\ modified /\ saved
    /\ tracker = Tracker(None, <<>>)

\* the boxes the tracker holds
CountBoxes(t) == Len(t.finished) + Len(t.active)

\* C33: every step changes the number of boxes held, finished and active, by what
\* it reports: a successful begin adds one, a successful cancel takes one, a clear
\* takes the number it returns (the clear command the finished boxes, or none
\* while a box is active), and every other step leaves the number as it is; end
\* and resume move the one box between active and finished, so that none is held
\* twice. From the empty tracker the number held is therefore begins minus
\* cancels minus boxes cleared
C33_BoxesConserved ==
    [][/\ CountBoxes(tracker') =
              CountBoxes(tracker)
                  + (IF lastOp' = "begin" /\ lastResult' = "Ok" THEN 1 ELSE 0)
                  - (IF lastOp' = "cancel" /\ lastResult' = "Ok" THEN 1 ELSE 0)
                  - (IF lastOp' = "clear" /\ lastResult' = "Ok" THEN lastCount' ELSE 0)
                  - (IF lastOp' = "cmd_clear" /\ tracker.active = None
                     THEN Len(tracker.finished) ELSE 0)
       /\ (lastOp' = "end" /\ lastResult' = "Ok") =>
              tracker'.active = None /\ Len(tracker'.finished) = Len(tracker.finished) + 1
       /\ (lastOp' = "resume" /\ lastResult' = "Ok") =>
              tracker'.active # None /\ Len(tracker'.finished) = Len(tracker.finished) - 1]_vars

\* clear was called while a box was active and took two finished boxes
C33_Witness ==
    /\ lastOp = "clear" /\ lastResult = "Ok" /\ lastCount = 2
    /\ tracker.active # None /\ tracker.finished = <<>>

----------------------------------------------------------------------------
(* The commands: SpecCli *)

C23_SavedOnlyIfModified ==
    [][lastOp' # "tick" =>
          /\ saved' => modified'
          /\ ~saved' => tracker' = tracker
          /\ (\/ lastOp' \in {"cmd_status", "cmd_list", "cmd_export"}
              \/ lastResult' # "Ok"
              \/ lastOp' = "cmd_clear" /\ tracker.active # None)
             => ~saved' /\ ~modified']_vars

\* export ran with an active box and finished boxes, and nothing was saved
C23_Witness ==
    /\ lastOp = "cmd_export" /\ lastResult = "Ok"
    /\ tracker.active # None /\ tracker.finished # <<>>
    /\ ~saved

----------------------------------------------------------------------------
(* The storage directory: SpecFiles *)

\* C24: from the creation of the swap file on, whether the save goes on, has ended or
\* the process has died at any of its steps, the tasks file holds all of the
\* snapshot the run loaded or all of the snapshot being saved
C24_TasksFileOldOrNew ==
    savePc # "idle" =>
        fs[TasksFile] \in {Some(File(snapshot[1])), Some(File(write(tracker)))}

\* the process died with half of the new snapshot in the swap file
C24_Witness ==
    /\ savePc = "crashed"
    /\ snapshot[1] # write(tracker)
    /\ fs[path_swap(TasksFile, now)] # None
    /\ ~Complete(fs[path_swap(TasksFile, now)][1])
    /\ fs[path_swap(TasksFile, now)][1] # <<>>

\* C27: the init command fails and leaves every file as it is when the tasks file
\* exists, and otherwise succeeds and leaves a tasks file holding the empty tracker
C27_InitNeverOverwrites ==
    [][CmdInit =>
          IF fs[TasksFile] # None
          THEN lastResult' # "Ok" /\ fs' = fs
          ELSE lastResult' = "Ok" /\ fs'[TasksFile] = Some(File(Tracker(None, <<>>)))]_vars

\* init was refused on a directory whose tasks file holds boxes
C27_Witness ==
    /\ lastOp = "cmd_init"
    /\ lastResult = "AlreadyExists"
    /\ fs[TasksFile] = Some(File(snapshot[1]))
    /\ snapshot[1].active # None
    /\ snapshot[1].finished # <<>>

----------------------------------------------------------------------------
(* One time box: SpecBox *)

\* C29: the duration of a box with notes is the time of its last note minus the time
\* of its first, whatever lies between them: zero for one note or equal times, and
\* negative when the last note is earlier than the first
C29_DurationIsLastMinusFirst ==
    LET notes == tracker.active[1].notes
    IN  (lastOp = "timedelta_total" /\ notes # <<>>) =>
            /\ lastResult = "Ok"
            /\ lastCount = Last(notes).time - notes[1].time
            /\ (Len(notes) = 1 \/ Last(notes).time = notes[1].time) => lastCount = 0
            /\ Last(notes).time < notes[1].time => lastCount < 0

\* three notes, the last one earlier than the first and the middle one later than both
C29_Witness ==
    LET notes == tracker.active[1].notes
    IN  /\ lastOp = "timedelta_total"
        /\ Len(notes) = 3
        /\ notes[3].time < notes[1].time
        /\ notes[1].time < notes[2].time
        /\ lastCount = 0 - TickSeconds

\* C30: each derived attribute fails with the missing-note error on a box without
\* notes and returns a value on every box with at least one note
C30_MissingNoteIffNoNotes ==
    lastOp \in BoxOps =>
        IF tracker.active[1].notes = <<>>
        THEN lastResult = "TimeBoxIsMissingNote"
        ELSE lastResult = "Ok"

\* the start time was asked of a box without notes
C30_Witness ==
    /\ lastOp = "time_start"
    /\ tracker.active[1].notes = <<>>
    /\ lastResult = "TimeBoxIsMissingNote"

----------------------------------------------------------------------------
(* Filters: SpecDates *)

\* the date of the day written year-month-day
Ymd(y, m, d) == from_ymd_opt(y, m, d)[1]

\* the months counted on from year 0
MonthIndex(date) == 12 * year(date) + month(date)

\* from is the first and to the last day of one calendar month
WholeMonth(from, to) ==
    /\ from <= to
    /\ MonthIndex(from) = MonthIndex(to)
    /\ MonthIndex(from - 1) # MonthIndex(from)
    /\ MonthIndex(to + 1) # MonthIndex(to)

\* the local date on which the box begins
StartDate(tb) == (tb.notes[1].time + UtcOffset) \div SecondsPerDay

\* the positions of the finished boxes whose start date the filter names
KeptBy(filter) ==
    {i \in 1 .. Len(tracker.finished) :
        IF filter.tag = "Date" THEN StartDate(tracker.finished[i]) = filter.date
        ELSE StartDate(tracker.finished[i]) \in filter.from .. filter.to}

\* C25: a listing with a filter that takes in all boxes returns exactly the finished
\* boxes that begin on the date of a date filter, or on a day from the first to the
\* last of a range filter, each once; of the boxes begun on 2024-01-05,
\* 2024-01-06 and 2024-02-01 the date 2024-01-05 keeps one and the range
\* 2024-01-01..2024-01-31 two
C25_FilterKeepsBoxesOfItsDates ==
    (lastOp = "finished") =>
        LET filter == parsed[1].val
        IN  /\ \A order \in Orders :
                  LET items == finished_filtered(tracker, ListOptions(0, UsizeMax, order),
                                                 Some(filter)).val.items
                  IN  /\ Len(items) = Cardinality(KeptBy(filter))
                      /\ \A i \in 1 .. Len(tracker.finished) :
                            i \in KeptBy(filter) <=>
                                \E j \in 1 .. Len(items) : items[j] = tracker.finished[i]
            /\ lastCount = Cardinality(KeptBy(filter))
            /\ filter = ListFilterDate(Ymd(2024, 1, 5)) => lastCount = 1
            /\ filter = ListFilterRange(Ymd(2024, 1, 1), Ymd(2024, 1, 31)) => lastCount = 2

\* the range of January 2024 kept the two boxes begun in that month
C25_Witness ==
    /\ lastOp = "finished"
    /\ parsed[1].val = ListFilterRange(Ymd(2024, 1, 1), Ymd(2024, 1, 31))
    /\ Len(tracker.finished) = 3
    /\ lastCount = 2

\* C26: whatever day today is, "this-month" is the range from the first to the last
\* day of today's month, ending on December 31 of the same year in December, and
\* "last-month" the range from the first to the last day of the month before, which
\* in January is December 1 to December 31 of the year before
C26_MonthFiltersAreWholeMonths ==
    [][/\ (lastOp = "init" /\ ParseDateFilter(Named("this-month"))) =>
              /\ parsed'[1].ok /\ parsed'[1].val.tag = "Range"
              /\ WholeMonth(parsed'[1].val.from, parsed'[1].val.to)
              /\ MonthIndex(parsed'[1].val.from) = MonthIndex(today)
              /\ month(today) = 12 => parsed'[1].val.to = Ymd(year(today), 12, 31)
       /\ (lastOp = "init" /\ ParseDateFilter(Named("last-month"))) =>
              /\ parsed'[1].ok /\ parsed'[1].val.tag = "Range"
              /\ WholeMonth(parsed'[1].val.from, parsed'[1].val.to)
              /\ MonthIndex(parsed'[1].val.from) = MonthIndex(today) - 1
              /\ month(today) = 1 =>
                     parsed'[1].val = ListFilterRange(Ymd(year(today) - 1, 12, 1),
                                                      Ymd(year(today) - 1, 12, 31))]_vars

\* "last-month" was asked on a day of January 2024 and gave December 2023
C26_Witness ==
    /\ lastOp = "parse_date_filter"
    /\ year(today) = 2024 /\ month(today) = 1
    /\ parsed = Some(Ok(ListFilterRange(Ymd(2023, 12, 1), Ymd(2023, 12, 31))))

\* the day is a Monday: 2024-01-01 was one
IsMonday(date) == (date + 7 * 53 * MaxYears + 7 * 53 - Ymd(2024, 1, 1)) % 7 = 0

\* C37: every range parse_date_filter returns has from <= to; a custom range whose
\* first date is later than its second is rejected; "this-week" is the Monday to the
\* Sunday of the week that holds today, "last-week" the seven days that end on the
\* day before this week's Monday, and "this-week" and "this-month" hold today
C37_RangesAreOrdered ==
    [][lastOp = "init" =>
          /\ \A s \in FilterArgs :
                (ParseDateFilter(s) /\ parsed'[1].ok /\ parsed'[1].val.tag = "Range") =>
                    parsed'[1].val.from <= parsed'[1].val.to
          /\ \A s \in FilterArgs :
                (/\ Len(s.parts) = 2
                 /\ parse_from_str(s.parts[1]) # None
                 /\ parse_from_str(s.parts[2]) # None
                 /\ Ymd(s.parts[1][1], s.parts[1][2], s.parts[1][3])
                        > Ymd(s.parts[2][1], s.parts[2][2], s.parts[2][3])
                 /\ ParseDateFilter(s)) =>
                    /\ ~parsed'[1].ok
                    /\ lastResult' = "Start date must be before or equal to end date"
          /\ ParseDateFilter(Named("this-week")) =>
                /\ parsed'[1].ok /\ parsed'[1].val.tag = "Range"
                /\ IsMonday(parsed'[1].val.from)
                /\ parsed'[1].val.to = parsed'[1].val.from + 6
                /\ today \in parsed'[1].val.from .. parsed'[1].val.to
          /\ ParseDateFilter(Named("last-week")) =>
                /\ parsed'[1].ok /\ parsed'[1].val.tag = "Range"
                /\ IsMonday(parsed'[1].val.to + 1)
                /\ today \in parsed'[1].val.to + 1 .. parsed'[1].val.to + 7
                /\ parsed'[1].val.from = parsed'[1].val.to - 6
          /\ ParseDateFilter(Named("this-month")) =>
                /\ parsed'[1].ok /\ parsed'[1].val.tag = "Range"
                /\ today \in parsed'[1].val.from .. parsed'[1].val.to]_vars

\* "this-week" was asked on Sunday 2024-01-07 and gave 2024-01-01 to 2024-01-07
C37_Witness ==
    /\ lastOp = "parse_date_filter"
    /\ today = Ymd(2024, 1, 7)
    /\ parsed = Some(Ok(ListFilterRange(Ymd(2024, 1, 1), Ymd(2024, 1, 7))))

----------------------------------------------------------------------------
(* A loaded file and the operations after it: SpecRun *)

\* C32: from the successful load on, whatever begin, push_note, amend, end, resume,
\* cancel, clear and save/load cycles follow while the clock stands at or after
\* the times of the file, the finished boxes are in non-decreasing order of the
\* time_start they are sorted by
C32_FinishedOrderedByStart ==
    (lastOp \notin {"init", "assert_valid"}) => StartsSorted(tracker.finished)

----------------------------------------------------------------------------
(* Pages and the export: SpecPages *)

\* C38: page(page, page_size) makes the listing return the window that skips
\* page * page_size boxes and takes page_size, for every page and page_size in the
\* machine word, and a skip at or beyond the number of finished boxes lists nothing
\* without an error
C38_PageWindow ==
    [][\A page_no, page_size \in PageArgs, order \in Orders, build \in Builds :
          FinishedPage(page_no, page_size, order, build) =>
              /\ lastResult' = "Ok"
              /\ page(ListOptions(0, 25, order), page_no, page_size).take = page_size
              /\ page(ListOptions(0, 25, order), page_no, page_size).skip = page_no * page_size
              /\ lastCount' = Len(skip_take(tracker.finished, page_no * page_size, page_size))
              /\ page_no * page_size >= Len(tracker.finished) => lastCount' = 0]_vars

\* C35: a save followed by a load gives back the tracker that was saved: the same
\* active box and the same finished boxes in the same order, none dropped, also with
\* more finished boxes than a default page holds
C35_SaveLoadIsIdentity ==
    [][(lastOp' = "save_load" /\ SaveLoad) =>
          lastResult' = "Ok" /\ tracker' = tracker /\ snapshot' = Some(tracker)]_vars

\* a tracker of more than 25 finished boxes and an active box was saved and loaded
C35_Witness ==
    /\ lastOp = "save_load" /\ lastResult = "Ok"
    /\ Len(tracker.finished) > ListOptionsNew.take
    /\ tracker.active # None
    /\ snapshot = Some(tracker)

\* C36: the export prints every finished box, however many there are, and leaves the
\* tracker as it was and unsaved
C36_ExportPrintsAll ==
    [][\A strategy \in ExportStrategies :
          CmdExport(strategy) =>
              /\ tracker' = tracker /\ ~modified' /\ ~saved'
              /\ lastResult' = "Ok"
              /\ Len(handle_command_export(tracker, strategy).printed) = Len(tracker.finished)
              /\ \A i \in 1 .. Len(tracker.finished) :
                    \E j \in 1 .. Len(handle_command_export(tracker, strategy).printed) :
                        handle_command_export(tracker, strategy).printed[j] = tracker.finished[i]]_vars

----------------------------------------------------------------------------
(* Two saves at once: SpecSavers *)

\* C39: when both of two concurrent saves are over, whatever the order of their
\* steps was, the tasks file holds all of what one of them wrote and nothing else
C39_TargetIsOneSnapshot ==
    (\A p \in Savers : savePc[p].pc \in {"renamed", "failed"}) =>
        \E p \in Savers : fs[TasksFile] = Some(File(write(savePc[p].data)))

====
